---- MODULE Spec2Model ----
(***************************************************************************)
(* NonSteamManager: the resumable multi-file transfer.                     *)
(*                                                                         *)
(* The client side is download_game (src/client/downloader.py) run by      *)
(* DownloadWorker.run (src/client/NonSteamManager.py); the server side is  *)
(* the download_file endpoint (src/server/DownloadServer.py).              *)
(*                                                                         *)
(* One invocation of download_game is a sequential process whose position  *)
(* is pc.  It is cut at its I/O boundaries, so that an I/O error or a      *)
(* crash of the process can fall between any two of them.  The install     *)
(* directory (the local files and the ledger file                          *)
(* .download_progress.json) survives an invocation; the memory of the      *)
(* process (file_status, the open response) does not.                      *)
(***************************************************************************)
EXTENDS Integers, Sequences, FiniteSets, TLC

\* ------------------------------------------------------------------ bounds
NFiles == 2          \* files in the catalog, paths 1..NFiles in catalog order
MaxSize == 2         \* largest file size, in bytes
ChunkLen == 1        \* stands for chunk_size = 64 * 1024 of iter_content
MaxInvocations == 2  \* download_game calls for the one install directory
MaxResolverFiles == 3  \* longest file list given to the progress resolver
MaxPercent == 101      \* largest progress percentage given to the resolver
MaxWorkers == 3        \* DownloadWorker objects the window creates
MaxServers == 4        \* longest list of ServerManager
MaxShortcuts == 3      \* most entries of shortcuts.vdf

Paths == 1..NFiles

\* ------------------------------------------------------------ server side
\* The byte at position i of the server's file p: every position of every
\* file holds a different value, so a wrong offset shows in the content.
Byte(p, i) == 10 * p + i

ServerContent(p, n) == [i \in 1..n |-> Byte(p, i)]

\* GameDownloadServer._send_partial_file: the bytes from offset to the end.
SendPartialFileOffByOne(content, offset, file_size) ==
    IF offset >= file_size
    THEN [status |-> 416, body |-> <<>>]
    ELSE [status |-> 206, body |-> SubSeq(content, offset, file_size)]

SendPartialFile(content, offset, file_size) ==
    IF offset >= file_size
    THEN [status |-> 416, body |-> <<>>]
    ELSE [status |-> 206,
          body |-> SubSeq(content, offset + 1, offset + (file_size - offset))]

\* "if offset >= file_size" taken as "if offset > file_size"
DownloadFileRangeAfterEnd(content, offset) ==
    LET file_size == Len(content) IN
    IF offset > file_size
    THEN [status |-> 416, body |-> <<>>]
    ELSE IF offset > 0
         THEN SendPartialFile(content, offset, file_size)
         ELSE [status |-> 200, body |-> content]

\* download_file, for an authorised request of an existing file in the root.
DownloadFile(content, offset) ==
    LET file_size == Len(content) IN
    IF offset >= file_size
    THEN [status |-> 416, body |-> <<>>]
    ELSE IF offset > 0
         THEN SendPartialFile(content, offset, file_size)
         ELSE [status |-> 200, body |-> content]

\* ------------------------------------------------- Python float arithmetic
\* IEEE-754 binary64, round to nearest, ties to even.
\* _get_start_file_index computes with Python floats.  A float is modelled by
\* its exact value (-1)^neg * m * 2^e, with m a natural number of at most
\* Precision bits; every operation computes the exact result and rounds it as
\* the hardware does.  The naturals involved exceed the integers of the model
\* checker, so m is a sequence of limbs, least significant first, without
\* leading zero limbs (the empty sequence is 0).  Exponent range (overflow,
\* subnormals) plays no role for percentages and file sizes and is not modelled.

Precision == 53   \* significand bits of a Python float
LimbBits == 15    \* bits per limb of a natural number
Base == 2^LimbBits

RECURSIVE BigOf(_)
BigOf(k) == IF k = 0 THEN <<>> ELSE <<k % Base>> \o BigOf(k \div Base)

RECURSIVE BigToInt(_)
BigToInt(a) == IF a = <<>> THEN 0 ELSE a[1] + Base * BigToInt(Tail(a))

RECURSIVE BigTrim(_)
BigTrim(a) ==
    IF a # <<>> /\ a[Len(a)] = 0 THEN BigTrim(SubSeq(a, 1, Len(a) - 1)) ELSE a

Limb(a, i) == IF i <= Len(a) THEN a[i] ELSE 0

Zeros(n) == [i \in 1..n |-> 0]

RECURSIVE AddFrom(_, _, _, _)
AddFrom(a, b, i, carry) ==
    IF i > Len(a) /\ i > Len(b)
    THEN IF carry = 0 THEN <<>> ELSE <<carry>>
    ELSE LET s == Limb(a, i) + Limb(b, i) + carry
         IN  <<s % Base>> \o AddFrom(a, b, i + 1, s \div Base)

BigAdd(a, b) == AddFrom(a, b, 1, 0)

RECURSIVE SubFrom(_, _, _, _)
SubFrom(a, b, i, borrow) ==
    IF i > Len(a) THEN <<>>
    ELSE LET d == a[i] - Limb(b, i) - borrow
         IN  <<IF d < 0 THEN d + Base ELSE d>>
                 \o SubFrom(a, b, i + 1, IF d < 0 THEN 1 ELSE 0)

\* a - b, for a >= b
BigSub(a, b) == BigTrim(SubFrom(a, b, 1, 0))

RECURSIVE CmpFrom(_, _, _)
CmpFrom(a, b, i) ==
    IF i = 0 THEN 0
    ELSE IF a[i] < b[i] THEN -1
    ELSE IF a[i] > b[i] THEN 1
    ELSE CmpFrom(a, b, i - 1)

\* -1, 0 or 1 as a < b, a = b or a > b
BigCmp(a, b) ==
    IF Len(a) < Len(b) THEN -1
    ELSE IF Len(a) > Len(b) THEN 1
    ELSE CmpFrom(a, b, Len(a))

RECURSIVE MulSmallFrom(_, _, _, _)
MulSmallFrom(a, k, i, carry) ==
    IF i > Len(a)
    THEN IF carry = 0 THEN <<>> ELSE <<carry>>
    ELSE LET s == a[i] * k + carry
         IN  <<s % Base>> \o MulSmallFrom(a, k, i + 1, s \div Base)

\* a * k, for k < Base
BigMulSmall(a, k) == IF k = 0 THEN <<>> ELSE MulSmallFrom(a, k, 1, 0)

RECURSIVE MulFrom(_, _, _)
MulFrom(a, b, j) ==
    IF j > Len(b) THEN <<>>
    ELSE BigAdd(Zeros(j - 1) \o BigMulSmall(a, b[j]), MulFrom(a, b, j + 1))

BigMul(a, b) == BigTrim(MulFrom(a, b, 1))

\* a * 2^s
BigShl(a, s) ==
    IF a = <<>> THEN <<>>
    ELSE Zeros(s \div LimbBits) \o BigMulSmall(a, 2^(s % LimbBits))

RECURSIVE DivSmallFrom(_, _, _, _)
DivSmallFrom(a, d, i, rem) ==
    IF i = 0 THEN <<>>
    ELSE LET t == rem * Base + a[i]
         IN  Append(DivSmallFrom(a, d, i - 1, t % d), t \div d)

\* floor(a / 2^s)
BigShr(a, s) ==
    LET k == s \div LimbBits
    IN  IF k >= Len(a) THEN <<>>
        ELSE BigTrim(DivSmallFrom(SubSeq(a, k + 1, Len(a)), 2^(s % LimbBits),
                                  Len(a) - k, 0))

RECURSIVE SmallBitLen(_)
SmallBitLen(k) == IF k = 0 THEN 0 ELSE 1 + SmallBitLen(k \div 2)

BigBitLen(a) ==
    IF a = <<>> THEN 0 ELSE LimbBits * (Len(a) - 1) + SmallBitLen(a[Len(a)])

\* bit i of a (bit 0 is the least significant)
BigBit(a, i) == (Limb(a, i \div LimbBits + 1) \div 2^(i % LimbBits)) % 2

BigIsOdd(a) == a # <<>> /\ a[1] % 2 = 1

\* 2 * a + bit
BigDouble(a, bit) ==
    LET d == BigAdd(a, a)
    IN  IF bit = 0 THEN d
        ELSE IF d = <<>> THEN <<1>>
        ELSE [d EXCEPT ![1] = @ + 1]

\* bit i of n * 2^s
DividendBit(n, s, i) == IF i < s THEN 0 ELSE BigBit(n, i - s)

\* one step of the binary long division of n * 2^s by b: bit i of the
\* dividend is brought down
DivStep(n, s, b, st, i) ==
    LET r2 == BigDouble(st.r, DividendBit(n, s, i))
    IN  IF BigCmp(r2, b) >= 0
        THEN [q |-> BigDouble(st.q, 1), r |-> BigSub(r2, b)]
        ELSE [q |-> BigDouble(st.q, 0), r |-> r2]

\* the steps for bits hi down to lo of the dividend, split in halves to keep
\* the recursion shallow; once the remainder is 0 and only zero bits are
\* left, the rest of the quotient is zero bits
RECURSIVE DivBits(_, _, _, _, _, _)
DivBits(n, s, b, st, hi, lo) ==
    IF hi < lo THEN st
    ELSE IF hi = lo THEN DivStep(n, s, b, st, hi)
    ELSE LET mid == (hi + lo) \div 2
             upper == DivBits(n, s, b, st, hi, mid + 1)
         IN  IF upper.r = <<>> /\ mid < s
             THEN [q |-> BigShl(upper.q, mid - lo + 1), r |-> <<>>]
             ELSE DivBits(n, s, b, upper, mid, lo)

\* quotient and remainder of n * 2^s by b # 0, by binary long division; the
\* leading bits of the dividend that cannot reach b start the remainder
BigDivMod(n, s, b) ==
    LET la == BigBitLen(n) + s
        lb == BigBitLen(b)
        skip == IF la < lb THEN la ELSE lb - 1
    IN  DivBits(n, s, b, [q |-> <<>>, r |-> BigShr(BigShl(n, s), la - skip)],
                la - skip - 1, 0)

\* the float nearest to (-1)^neg * M * 2^e, ties to the even significand
FloatRound(neg, M, e) ==
    LET bl == BigBitLen(M)
    IN  IF bl <= Precision THEN [neg |-> neg, m |-> M, e |-> e]
        ELSE LET k == bl - Precision
                 T == BigShr(M, k - 1)
                 m == BigShr(T, 1)
                 sticky == BigCmp(BigShl(T, k - 1), M) # 0
                 up == BigIsOdd(T) /\ (sticky \/ BigIsOdd(m))
             IN  [neg |-> neg,
                  m |-> IF up THEN BigAdd(m, <<1>>) ELSE m,
                  e |-> e + k]

\* the float nearest to (-1)^neg * (N / D) * 2^e: the quotient is computed
\* to Precision + 2 bits or more and the remainder kept as a sticky bit
FloatQuot(neg, N, D, e) ==
    IF N = <<>> THEN [neg |-> neg, m |-> <<>>, e |-> 0]
    ELSE LET want == Precision + 2 + BigBitLen(D) - BigBitLen(N)
             s == IF want > 0 THEN want ELSE 0
             dm == BigDivMod(N, s, D)
             Q == BigDouble(dm.q, IF dm.r = <<>> THEN 0 ELSE 1)
         IN  FloatRound(neg, Q, e - s - 1)

\* float(k) of an int k
FloatOfInt(k) ==
    [neg |-> k < 0, m |-> BigOf(IF k < 0 THEN 0 - k ELSE k), e |-> 0]

\* x / y
FloatDiv(x, y) == FloatQuot(x.neg # y.neg, x.m, y.m, x.e - y.e)

\* x * y
FloatMul(x, y) == FloatRound(x.neg # y.neg, BigMul(x.m, y.m), x.e + y.e)

\* the significands of x and y over their common (smaller) exponent
Aligned(x, y) ==
    LET e == IF x.e < y.e THEN x.e ELSE y.e
    IN  [e |-> e, x |-> BigShl(x.m, x.e - e), y |-> BigShl(y.m, y.e - e)]

\* x - y
FloatSub(x, y) ==
    LET al == Aligned(x, y)
    IN  IF x.neg # y.neg THEN FloatRound(x.neg, BigAdd(al.x, al.y), al.e)
        ELSE IF BigCmp(al.x, al.y) = 0 THEN [neg |-> FALSE, m |-> <<>>, e |-> 0]
        ELSE IF BigCmp(al.x, al.y) > 0
             THEN FloatRound(x.neg, BigSub(al.x, al.y), al.e)
             ELSE FloatRound(~x.neg, BigSub(al.y, al.x), al.e)

FloatSign(x) == IF x.m = <<>> THEN 0 ELSE IF x.neg THEN -1 ELSE 1

\* x >= y
FloatGe(x, y) ==
    LET al == Aligned(x, y)
    IN  IF FloatSign(x) # FloatSign(y) THEN FloatSign(x) > FloatSign(y)
        ELSE IF FloatSign(x) = 0 THEN TRUE
        ELSE IF FloatSign(x) = 1 THEN BigCmp(al.x, al.y) >= 0
        ELSE BigCmp(al.x, al.y) <= 0

\* int(x): truncation toward zero
IntOfFloat(x) ==
    LET mag == BigToInt(IF x.e >= 0 THEN BigShl(x.m, x.e)
                        ELSE BigShr(x.m, 0 - x.e))
    IN  IF x.neg THEN 0 - mag ELSE mag

\* ------------------------------------------------------ progress resolver
\* GameDownloadServer._get_start_file_index.  files is the list of the file
\* sizes in catalog order, progress_percent the percentage of the request;
\* the result is <<file_index, file_offset>>, file_index counted from 0.

\* the literal 0.95 of the skip-ahead test
SkipAhead == FloatQuot(FALSE, BigOf(95), BigOf(100), 0)

\* if progress_percent <= 0
NotStartedNever(progress_percent) == FALSE

NotStarted(progress_percent) ==
    FloatGe(FloatOfInt(0), FloatOfInt(progress_percent))

\* files[file_index]['size']
FileSizeOfFirst(files, file_index) == files[1]

FileSize(files, file_index) == files[file_index + 1]

GetStartFileIndex(files, progress_percent) ==
    IF files = <<>> THEN <<0, 0>>
    ELSE IF NotStarted(progress_percent) THEN <<0, 0>>
    ELSE IF FloatGe(FloatOfInt(progress_percent), FloatOfInt(100))
         THEN <<Len(files), 0>>
    ELSE LET total_files == Len(files)
             progress_per_file ==
                 FloatDiv(FloatOfInt(100), FloatOfInt(total_files))
             quotient ==
                 IntOfFloat(FloatDiv(FloatOfInt(progress_percent),
                                     progress_per_file))
             file_index ==
                 IF quotient >= total_files THEN total_files - 1 ELSE quotient
             file_progress ==
                 FloatSub(FloatOfInt(progress_percent),
                          FloatMul(FloatOfInt(file_index), progress_per_file))
             file_progress_percent == FloatDiv(file_progress, progress_per_file)
         IN  IF FloatGe(file_progress_percent, SkipAhead)
             THEN <<file_index + 1, 0>>
             ELSE <<file_index,
                    IntOfFloat(FloatMul(FloatOfInt(FileSize(files, file_index)),
                                        file_progress_percent))>>

\* The inputs of the resolver: the lists of up to MaxResolverFiles files and
\* the whole percentages from below 0 to MaxPercent, beyond 100.
FileSizes == {100, 300}

FileLists == UNION {[1..n -> FileSizes] : n \in 0..MaxResolverFiles}

Percents == (0 - 1)..MaxPercent

\* no resolver call
NoResolve == [files |-> <<>>, progress_percent |-> 0, start |-> <<>>]

\* ------------------------------------------------------- request handling
\* The routes of GameDownloadServer._setup_routes.  A request is the record
\* of its header and parameters; a response records the status, the
\* Content-Length and Content-Range headers, the body, the file the body was
\* read from and the work the handler did before it answered.

\* server.verify and server.secret_key of config.json; "" is a key that is
\* missing or empty.
Configs == [verify : BOOLEAN, secret_key : {"", "secret"}]

\* The X-API-Key header: absent, wrong, or the configured secret.
ApiKeys == {"none", "wrong", "secret"}

\* _verify_api_key refusing every key while no secret is configured
VerifyApiKeyFailClosed(cfg, api_key) ==
    IF ~cfg.verify THEN TRUE
    ELSE IF cfg.secret_key = "" THEN FALSE
    ELSE api_key = cfg.secret_key

\* _verify_api_key
VerifyApiKey(cfg, api_key) ==
    IF ~cfg.verify THEN TRUE
    ELSE IF cfg.secret_key = "" THEN TRUE
    ELSE api_key = cfg.secret_key

\* Paths are sequences of segments.  The segments 1..NFiles are the names of
\* the files the game directory may hold, in catalog order.
DotDot == 0                  \* the segment '..'
ParentName == NFiles + 1     \* the directory that holds the game directory
GameName == NFiles + 2       \* the game directory
OutsideName == NFiles + 3    \* a file next to the game directory
NoName == NFiles + 4         \* a name nothing has

\* game_info['directory'], an absolute path
GameDir == <<ParentName, GameName>>

\* game_dir / file_path: an absolute file_path replaces game_dir
FullPath(file_path) ==
    IF file_path.absolute THEN file_path.parts ELSE GameDir \o file_path.parts

\* full_path.relative_to(game_dir) does not raise: the parts of game_dir
\* start the parts of full_path, '..' segments being parts like any other
RelativeTo(parts, dir) ==
    Len(dir) <= Len(parts) /\ SubSeq(parts, 1, Len(dir)) = dir

\* The directories of the server's filesystem, as absolute locations.
IsDir(fs, at) ==
    at \in {<<>>, <<ParentName>>} \/ (at = GameDir /\ fs.root = "ok")

\* The regular files of the server's filesystem: the files of the game
\* directory that the catalog lists and nobody removed, and the file next
\* to the game directory.
IsFile(fs, at) ==
    \/ /\ fs.root = "ok"
       /\ Len(at) = Len(GameDir) + 1
       /\ SubSeq(at, 1, Len(GameDir)) = GameDir
       /\ at[Len(at)] \in 1..Len(fs.files)
       /\ at[Len(at)] \notin fs.gone
    \/ at = <<ParentName, OutsideName>> /\ fs.outside >= 0

\* The bytes of the file at a location.
FileBytes(fs, at) ==
    IF at = <<ParentName, OutsideName>>
    THEN ServerContent(0, fs.outside)
    ELSE ServerContent(at[Len(at)], fs.files[at[Len(at)]])

NoPlace == <<DotDot>>

\* The location the operating system reaches from directory at along parts,
\* NoPlace if a segment on the way is no directory.
RECURSIVE Walk(_, _, _)
Walk(fs, at, parts) ==
    IF parts = <<>> THEN at
    ELSE IF ~IsDir(fs, at) THEN NoPlace
    ELSE IF Head(parts) = DotDot
         THEN Walk(fs, IF at = <<>> THEN <<>> ELSE SubSeq(at, 1, Len(at) - 1),
                   Tail(parts))
    ELSE Walk(fs, Append(at, Head(parts)), Tail(parts))

InsideGameDir(at) == at # NoPlace /\ RelativeTo(at, GameDir)

NoResponse == [status |-> 0]

Refusal(code, work) ==
    [status |-> code, content_length |-> 0 - 1, content_range |-> <<>>,
     body |-> <<>>, source |-> <<>>, work |-> work]

\* download_file
DownloadFileResponse(cfg, fs, req) ==
    IF ~VerifyApiKey(cfg, req.api_key) THEN Refusal(403, <<>>)
    ELSE IF ~req.game_known THEN Refusal(404, <<"lookup">>)
    ELSE IF ~RelativeTo(FullPath(req.file_path), GameDir)
         THEN Refusal(403, <<"lookup">>)
    ELSE LET at == Walk(fs, <<>>, FullPath(req.file_path)) IN
         IF ~IsFile(fs, at) THEN Refusal(404, <<"lookup", "stat">>)
         ELSE LET content == FileBytes(fs, at)
                  file_size == Len(content)
                  sent == DownloadFile(content, req.offset)
              IN  IF sent.status = 416
                  THEN Refusal(416, <<"lookup", "stat">>)
                  ELSE [status |-> sent.status,
                        content_length |->
                            IF sent.status = 206 THEN file_size - req.offset
                            ELSE file_size,
                        content_range |->
                            IF sent.status = 206
                            THEN <<req.offset, file_size - 1, file_size>>
                            ELSE <<>>,
                        body |-> sent.body,
                        source |-> at,
                        work |-> <<"lookup", "stat", "read">>]

\* ------------------------------------------------------------ the ledger
\* A ledger is a function path -> [size, downloaded]; the JSON object of
\* .download_progress.json.  The file on disk is absent, holds a whole JSON
\* object ("valid"), or holds what an interrupted write left ("partial":
\* empty or cut short, which json.load rejects).
EmptyMap == [p \in {} |-> [size |-> 0, downloaded |-> 0]]

Absent == [kind |-> "absent", map |-> EmptyMap]
Partial == [kind |-> "partial", map |-> EmptyMap]
Valid(m) == [kind |-> "valid", map |-> m]
\* A file that json.load accepts and that is no mapping path -> {size,
\* downloaded} (a list, a number, an entry without "downloaded"): the loop
\* over the catalog or get_downloaded_total raises on it.
Malformed == [kind |-> "malformed", map |-> EmptyMap]

RECURSIVE SumOver(_, _)
SumOver(f, S) ==
    IF S = {} THEN 0
    ELSE LET x == CHOOSE y \in S : TRUE IN f[x] + SumOver(f, S \ {x})

\* total_size = sum(f["size"] for f in files)
TotalSize(sz) == SumOver(sz, Paths)

\* "if total_size == 0: raise ValueError"
IsEmptyGameNever(sz) == FALSE

IsEmptyGame(sz) == TotalSize(sz) = 0

\* get_downloaded_total()
GetDownloadedTotalOfCatalog(fs) ==
    SumOver([p \in Paths |-> fs[p].downloaded], Paths)

GetDownloadedTotal(fs) ==
    SumOver([p \in DOMAIN fs |-> fs[p].downloaded], DOMAIN fs)

\* Step 2 of download_game: the ledger read from disk, {} when the file is
\* absent or json.load raises.
LoadLedgerFile(disk) == IF disk.kind = "valid" THEN disk.map ELSE EmptyMap

\* The loop "for f in files: if path not in file_status: ...".
InitMissingReset(fs, sz) ==
    [p \in Paths \cup DOMAIN fs |->
        [size |-> IF p \in Paths THEN sz[p] ELSE 0, downloaded |-> 0]]

InitMissing(fs, sz) ==
    [p \in Paths \cup DOMAIN fs |->
        IF p \in DOMAIN fs THEN fs[p] ELSE [size |-> sz[p], downloaded |-> 0]]

\* "already >= file_info['size']: continue"
IsDoneWhenLarger(fs, sz, p) == fs[p].downloaded > sz[p]

IsDone(fs, sz, p) == fs[p].downloaded >= sz[p]

\* "?offset={already}"
RequestOffsetZero(fs, p) == 0

RequestOffset(fs, p) == fs[p].downloaded

\* open(local_path, "ab"): the content of the file once opened.
OpenTruncate(content) == <<>>

OpenAppend(content) == content

\* file_status[remote_path]["downloaded"] += len(chunk)
AddDownloadedAssign(fs, p, n) == [fs EXCEPT ![p].downloaded = n]

AddDownloaded(fs, p, n) == [fs EXCEPT ![p].downloaded = @ + n]

\* The file the i-th iteration of "for file_info in files" is about.
FileAtReversed(i) == NFiles + 1 - i

FileAt(i) == i

\* --------------------------------------------------------- the other routes
Routes ==
    {"list_games", "get_game_files", "get_download_start_info",
     "download_file", "stream_game_files"}

\* The entries of the game directory in the order of the scan; the path of
\* an entry is the sequence of its segments.
Entries(fs) ==
    [i \in 1..Len(fs.files) |-> [path |-> <<i>>, size |-> fs.files[i]]]

\* _scan_game_files: a game directory for which os.path.exists is False
\* ("missing": not there, or not reachable) gives no files; a directory or
\* an entry that cannot be listed or opened raises.
ScanGameFiles(fs) ==
    LET found == SelectSeq(Entries(fs), LAMBDA e : e.path[1] \notin fs.gone)
    IN  IF fs.root = "missing" THEN [raised |-> FALSE, files |-> <<>>]
        ELSE IF \/ fs.root = "unreadable"
                \/ \E i \in 1..Len(found) : found[i].path[1] \in fs.unreadable
             THEN [raised |-> TRUE, files |-> <<>>]
        ELSE [raised |-> FALSE, files |-> found]

Sizes(files) == [i \in 1..Len(files) |-> files[i].size]

\* sum(f['size'] for f in files)
SumSizesIsCount(files) == Len(files)

SumSizes(files) == SumOver(Sizes(files), 1..Len(files))

\* list_games
ListGamesResponse(cfg, req) ==
    IF ~VerifyApiKey(cfg, req.api_key) THEN Refusal(403, <<>>)
    ELSE [status |-> 200, games |-> <<GameName>>, work |-> <<>>]

\* get_game_files
GetGameFilesResponse(cfg, fs, req) ==
    IF ~VerifyApiKey(cfg, req.api_key) THEN Refusal(403, <<>>)
    ELSE IF ~req.game_known THEN Refusal(404, <<"lookup">>)
    ELSE LET scan == ScanGameFiles(fs) IN
         IF scan.raised THEN Refusal(500, <<"lookup", "scan">>)
         ELSE [status |-> 200,
               files |-> scan.files,
               total_files |-> Len(scan.files),
               total_size |-> SumSizes(scan.files),
               work |-> <<"lookup", "scan">>]

StartInfo(files, index, path, offset) ==
    [status |-> 200, start_file_index |-> index, start_file_path |-> path,
     start_file_offset |-> offset, files |-> files,
     work |-> <<"lookup", "scan">>]

\* get_download_start_info, from the scan on; start is what
\* _get_start_file_index returns for the files and the progress.
StartInfoFor(scan, req, start) ==
    LET files == scan.files
        file_index == start[1]
        file_offset == start[2]
    IN  IF scan.raised THEN Refusal(500, <<"lookup", "scan">>)
        ELSE IF files = <<>> THEN StartInfo(<<>>, 0, <<>>, 0)
        ELSE IF req.progress >= 100 \/ file_index >= Len(files)
             THEN StartInfo(files, Len(files), <<>>, 0)
        ELSE StartInfo(files, file_index, files[file_index + 1].path,
                       file_offset)

\* get_download_start_info
GetDownloadStartInfoResponse(cfg, fs, req, start) ==
    IF ~VerifyApiKey(cfg, req.api_key) THEN Refusal(403, <<>>)
    ELSE IF ~req.game_known THEN Refusal(404, <<"lookup">>)
    ELSE StartInfoFor(ScanGameFiles(fs), req, start)

\* "if progress >= 100 or file_index >= len(files)" of stream_game_files
NothingToStreamAtHundred(files, progress, file_index) == progress >= 100

NothingToStream(files, progress, file_index) ==
    progress >= 100 \/ file_index >= Len(files)

\* stream_game_files, from the scan on up to the StreamingResponse; start is
\* what _get_start_file_index returns; files, file_index and file_offset are
\* what the body generator closes over.
StreamFor(scan, req, start) ==
    LET files == scan.files
        file_index == start[1]
        file_offset == start[2]
    IN  IF scan.raised THEN Refusal(500, <<"lookup", "scan">>)
        ELSE IF files = <<>> THEN Refusal(404, <<"lookup", "scan">>)
        ELSE IF NothingToStream(files, req.progress, file_index)
             THEN Refusal(404, <<"lookup", "scan">>)
        ELSE [status |-> 200,
              start_file_index |-> file_index,
              start_file_path |->
                  IF file_index < Len(files)
                  THEN files[file_index + 1].path ELSE <<>>,
              total_files |-> Len(files),
              current_progress |-> req.progress,
              files |-> files,
              file_offset |-> file_offset,
              work |-> <<"lookup", "scan">>]

\* stream_game_files
StreamGameFilesResponse(cfg, fs, req, start) ==
    IF ~VerifyApiKey(cfg, req.api_key) THEN Refusal(403, <<>>)
    ELSE IF ~req.game_known THEN Refusal(404, <<"lookup">>)
    ELSE StreamFor(ScanGameFiles(fs), req, start)

\* get_download_start_info and stream_game_files get as far as the call of
\* _get_start_file_index: the request passes the key check and the lookup,
\* the scan succeeds and finds files.
CallsResolver(cfg, fs, req) ==
    /\ VerifyApiKey(cfg, req.api_key)
    /\ req.game_known
    /\ ~ScanGameFiles(fs).raised
    /\ ScanGameFiles(fs).files # <<>>

\* The body generator file_stream: state is none, running, done (the loop
\* ended) or raised (an exception ended it); i is the loop variable; offset
\* is the generator's own variable file_offset, <<>> while nothing has been
\* assigned to it; sent is what has been yielded.
NoGen ==
    [state |-> "none", files |-> <<>>, file_index |-> 0, i |-> 0,
     offset |-> <<>>, sent |-> <<>>]

\* file_stream() called: nothing runs until the body is iterated.
FileStream(resp) ==
    [state |-> "running", files |-> resp.files,
     file_index |-> resp.start_file_index, i |-> resp.start_file_index,
     offset |-> <<>>, sent |-> <<>>]

\* the four lines of the boundary marker
Marker(file_info) ==
    [marker |-> TRUE, path |-> file_info.path, size |-> file_info.size,
     data |-> <<>>]

\* the chunks read from one file, none if nothing is left of it
Chunks(file_info, data) ==
    [marker |-> FALSE, path |-> file_info.path, size |-> file_info.size,
     data |-> data]

\* One round of the loop of file_stream.  "file_offset = 0" at the end of
\* the loop body makes file_offset a variable of file_stream itself, so
\* reading it for the starting file, before any round has assigned it,
\* raises UnboundLocalError.
FileStreamRound(g, fs) ==
    IF g.i >= Len(g.files) THEN [g EXCEPT !.state = "done"]
    ELSE
    LET file_info == g.files[g.i + 1]
        file_path == GameDir \o file_info.path
    IN  IF ~IsFile(fs, file_path) THEN [g EXCEPT !.i = @ + 1]
        ELSE IF g.i = g.file_index /\ g.offset = <<>>
             THEN [g EXCEPT !.state = "raised"]
        ELSE
        LET start_offset == IF g.i = g.file_index THEN g.offset[1] ELSE 0
            content == FileBytes(fs, file_path)
            data == SubSeq(content, start_offset + 1, Len(content))
            marker ==
                IF g.i > g.file_index \/ start_offset > 0
                THEN <<Marker(file_info)>> ELSE <<>>
        IN  [g EXCEPT !.sent = @ \o marker \o <<Chunks(file_info, data)>>,
                      !.offset = <<0>>,
                      !.i = @ + 1]

\* ------------------------------------------------------------------ state
VARIABLES
    size,         \* the catalog: path -> size of the server's file
    local,        \* install directory: path -> content of the local file
    localExists,  \* install directory: path -> the local file exists
    ledgerDisk,   \* install directory: the ledger file
    pc,           \* position of the running invocation, "idle" when none
    idx,          \* position of the loop over files, 1..NFiles+1
    file_status,  \* the ledger in memory
    open,         \* paths whose response is open (a transfer in flight)
    stream,       \* bytes of the open response not yet received
    chunk,        \* the chunk written to the file and not yet recorded
    events,       \* callbacks, requests, file appends, signals of the invocation
    result,       \* how the last invocation ended
    invocations,  \* download_game calls so far
    \* history, for stating properties only
    loaded,       \* file_status as loaded and initialised by the invocation
    startLocal,   \* local when the invocation started
    startLedger,  \* ledgerDisk when the invocation started
    persisted,    \* the ledger file as the invocation found or last saved it
    completed,    \* paths whose transfer ended without error, and saved
    prevResult,   \* how the invocation before the current one ended
    \* the server's progress resolver
    resolver,     \* a call of _get_start_file_index: arguments and result
    \* the server's handling of requests
    config,       \* config.json: verification of the X-API-Key header
    srvfs,        \* the server's filesystem: the game directory and around it
    request,      \* header and parameters of the requests
    response,     \* route -> the response of the route's handler
    gen,          \* the body generator of the stream response
    \* the desktop client: the download page of MainWindow
    selected_game, \* MainWindow.selected_game, 0 while the attribute is not set
    download_btn,  \* download_btn is enabled
    workers,       \* the DownloadWorker objects created, in order
    \* the desktop client: ServerManager
    servers,       \* ServerManager.servers
    \* the desktop client: SteamVDFManager
    vdf_data,      \* SteamVDFManager.vdf_data, <<>> for None
    vdf_path,      \* SteamVDFManager.vdf_path is set
    vdf_file,      \* the file shortcuts.vdf on disk
    returned       \* the last call of SteamVDFManager and what it returned

vars == <<size, local, localExists, ledgerDisk, pc, idx, file_status, open,
          stream, chunk, events, result, invocations, loaded, startLocal,
          startLedger, persisted, completed, prevResult, resolver,
          config, srvfs, request, response, gen,
          selected_game, download_btn, workers, servers,
          vdf_data, vdf_path, vdf_file, returned>>

disk == <<local, localExists, ledgerDisk>>
hist == <<loaded, startLocal, startLedger, persisted, completed, prevResult>>
http == <<config, srvfs, request, response, gen>>
client == <<size, disk, pc, idx, file_status, open, stream, chunk, events,
           result, invocations, hist>>
page == <<selected_game, download_btn, workers>>
shortcuts == <<vdf_data, vdf_path, vdf_file, returned>>
desktop == <<page, servers, shortcuts>>

Ev(kind, a, b) == [ev |-> kind, a |-> a, b |-> b]

\* The exception DownloadWorker.run reports with error.emit(str(e)).
ErrIO == 0          \* raised by requests or by file I/O
ErrEmptyGame == 1   \* ValueError: total_size == 0
ErrLedger == 2      \* TypeError or KeyError on a ledger that is no mapping

\* ------------------------------------------------------------------- Init
\* No request reaches the server.
HttpIdle ==
    /\ config = [verify |-> FALSE, secret_key |-> ""]
    /\ srvfs = [root |-> "ok", files |-> <<>>, gone |-> {}, unreadable |-> {},
                outside |-> 0 - 1]
    /\ request = [api_key |-> "none", game_known |-> TRUE,
                  file_path |-> [absolute |-> FALSE, parts |-> <<>>],
                  offset |-> 0, progress |-> 0]
    /\ response = [r \in {} |-> NoResponse]
    /\ gen = NoGen

\* The desktop client as MainWindow.__init__ leaves it: no game chosen, the
\* button disabled, no worker, no servers.json, no shortcuts.vdf loaded.
DesktopIdle ==
    /\ selected_game = 0
    /\ download_btn = FALSE
    /\ workers = <<>>
    /\ servers = <<>>
    /\ vdf_data = <<>>
    /\ vdf_path = FALSE
    /\ vdf_file = [exists |-> FALSE, keys |-> {}, complete |-> FALSE]
    /\ returned = [call |-> "none", value |-> FALSE]

Memory0 ==
    /\ pc = "idle"
    /\ idx = 1
    /\ file_status = EmptyMap
    /\ open = {}
    /\ stream = <<>>
    /\ chunk = <<>>
    /\ events = <<>>
    /\ result = "none"
    /\ invocations = 0
    /\ loaded = EmptyMap
    /\ completed = {}
    /\ prevResult = "none"

\* A fresh install directory.
Init ==
    /\ size \in [Paths -> 0..MaxSize]
    /\ local = [p \in Paths |-> <<>>]
    /\ localExists = [p \in Paths |-> FALSE]
    /\ ledgerDisk = Absent
    /\ startLocal = local
    /\ startLedger = ledgerDisk
    /\ persisted = ledgerDisk
    /\ Memory0
    /\ DesktopIdle
    /\ resolver = NoResolve
    /\ HttpIdle

\* The ledger of a transfer interrupted in file j after k of its bytes: the
\* files before j are complete, the files after j have nothing.
InterruptedAt(sz, j, k) ==
    [p \in Paths |->
        [size |-> sz[p],
         downloaded |-> IF p < j THEN sz[p] ELSE IF p = j THEN k ELSE 0]]

\* An install directory as an interrupted transfer leaves it when the ledger
\* matches the files: every file holds the first "downloaded" bytes of the
\* server's file.  The directory is an argument of download_game; a fresh
\* one is among them.
InitResume ==
    /\ size \in [Paths -> 0..MaxSize]
    /\ \/ /\ ledgerDisk = Absent
          /\ local = [p \in Paths |-> <<>>]
          /\ localExists = [p \in Paths |-> FALSE]
       \/ \E j \in Paths, k \in 0..MaxSize :
            /\ k <= size[j]
            /\ ledgerDisk = Valid(InterruptedAt(size, j, k))
            /\ local = [p \in Paths |->
                   ServerContent(p, InterruptedAt(size, j, k)[p].downloaded)]
            /\ localExists = [p \in Paths |->
                   InterruptedAt(size, j, k)[p].downloaded > 0]
    /\ startLocal = local
    /\ startLedger = ledgerDisk
    /\ persisted = ledgerDisk
    /\ Memory0
    /\ DesktopIdle
    /\ resolver = NoResolve
    /\ HttpIdle

\* The path of a file that an older catalog listed and this one does not.
Stale == NFiles + 1

\* The ledgers an install directory may hold for the catalog sz: any subset
\* of the catalog's paths tracked, each with some of its bytes, and possibly
\* the entry of the stale path, complete or not.
Ledgers(sz) ==
    UNION {{m \in [D -> [size : 0..MaxSize, downloaded : 0..MaxSize]] :
              \A p \in D :
                 IF p = Stale
                 THEN m[p].size = 1 /\ m[p].downloaded <= 1
                 ELSE m[p].size = sz[p] /\ m[p].downloaded <= sz[p]}
           : D \in SUBSET (Paths \cup {Stale})}

\* An install directory with any ledger file: none, a cut-short one, one
\* that is no mapping, or a ledger of this or an older catalog with the
\* local files it records.
InitLedger ==
    /\ size \in [Paths -> 0..MaxSize]
    /\ \/ /\ ledgerDisk \in {Absent, Partial, Malformed}
          /\ local = [p \in Paths |-> <<>>]
          /\ localExists = [p \in Paths |-> FALSE]
       \/ \E m \in Ledgers(size) :
            /\ ledgerDisk = Valid(m)
            /\ local = [p \in Paths |->
                   IF p \in DOMAIN m THEN ServerContent(p, m[p].downloaded)
                   ELSE <<>>]
            /\ localExists = [p \in Paths |->
                   p \in DOMAIN m /\ m[p].downloaded > 0]
    /\ startLocal = local
    /\ startLedger = ledgerDisk
    /\ persisted = ledgerDisk
    /\ Memory0
    /\ DesktopIdle
    /\ resolver = NoResolve
    /\ HttpIdle

\* ---------------------------------------------------------------- actions
\* DownloadWorker.run calls download_game; install_dir.mkdir.
Start ==
    /\ pc = "idle"
    /\ invocations < MaxInvocations
    /\ pc' = "fetch"
    /\ invocations' = invocations + 1
    /\ idx' = 1
    /\ file_status' = EmptyMap
    /\ open' = {}
    /\ stream' = <<>>
    /\ chunk' = <<>>
    /\ events' = <<>>
    /\ result' = "running"
    /\ loaded' = EmptyMap
    /\ startLocal' = local
    /\ startLedger' = ledgerDisk
    /\ persisted' = ledgerDisk
    /\ completed' = {}
    /\ prevResult' = result
    /\ UNCHANGED <<resolver, http, desktop>>
    /\ UNCHANGED <<size, disk>>

\* The exception leaves download_game: the with-blocks close the response
\* and the local file, DownloadWorker.run emits error.
Abort ==
    /\ pc' = "idle"
    /\ result' = "error"
    /\ open' = {}
    /\ stream' = <<>>
    /\ chunk' = <<>>

\* Step 1: GET /games/{id}; ValueError when total_size == 0.
FetchCatalog ==
    /\ pc = "fetch"
    /\ IF IsEmptyGame(size)
       THEN /\ Abort
            /\ events' = Append(events, Ev("error", ErrEmptyGame, 0))
       ELSE /\ pc' = "load"
            /\ UNCHANGED <<events, result, open, stream, chunk>>
    /\ UNCHANGED <<resolver, http, desktop>>
    /\ UNCHANGED <<size, disk, idx, file_status, invocations, hist>>

\* Steps 2 and 3: load the ledger, add the untracked files, report the
\* initial progress.
LoadLedger ==
    /\ pc = "load"
    /\ IF ledgerDisk.kind = "malformed"
       THEN /\ Abort
            /\ events' = Append(events, Ev("error", ErrLedger, 0))
            /\ UNCHANGED <<file_status, loaded, idx>>
       ELSE LET fs == InitMissing(LoadLedgerFile(ledgerDisk), size) IN
            /\ file_status' = fs
            /\ loaded' = fs
            /\ events' = Append(events,
                   Ev("progress", GetDownloadedTotal(fs), TotalSize(size)))
            /\ pc' = "loop"
            /\ idx' = 1
            /\ UNCHANGED <<open, stream, chunk, result>>
    /\ UNCHANGED <<resolver, http, desktop>>
    /\ UNCHANGED <<size, disk, invocations, startLocal, startLedger,
                   persisted, completed, prevResult>>

\* Step 4, a file whose entry is complete: continue.
SkipFile ==
    /\ pc = "loop"
    /\ idx <= NFiles
    /\ IsDone(file_status, size, FileAt(idx))
    /\ idx' = idx + 1
    /\ UNCHANGED <<resolver, http, desktop>>
    /\ UNCHANGED <<size, disk, pc, file_status, open, stream, chunk, events,
                   result, invocations, hist>>

\* Step 4, a file whose entry is incomplete: the status message, the request
\* with the offset, raise_for_status, and the local file opened for append.
RequestFile ==
    /\ pc = "loop"
    /\ idx <= NFiles
    /\ ~IsDone(file_status, size, FileAt(idx))
    /\ LET p == FileAt(idx)
           already == RequestOffset(file_status, p)
           resp == DownloadFile(ServerContent(p, size[p]), already)
           sent == events \o <<Ev("status", p, 0), Ev("request", p, already)>>
       IN IF resp.status \in {200, 206}
          THEN /\ open' = open \cup {p}
               /\ stream' = resp.body
               /\ local' = [local EXCEPT ![p] = OpenAppend(@)]
               /\ localExists' = [localExists EXCEPT ![p] = TRUE]
               /\ events' = sent
               /\ pc' = "recv"
               /\ UNCHANGED <<result, chunk>>
          ELSE /\ Abort
               /\ events' = Append(sent, Ev("error", ErrIO, 0))
               /\ UNCHANGED <<local, localExists>>
    /\ UNCHANGED <<resolver, http, desktop>>
    /\ UNCHANGED <<size, ledgerDisk, idx, file_status, invocations, hist>>

\* iter_content yields a chunk of at most chunk_size bytes; f_out.write.
WriteChunk ==
    /\ pc = "recv"
    /\ stream # <<>>
    /\ \E n \in 1..ChunkLen :
        /\ n <= Len(stream)
        /\ chunk' = SubSeq(stream, 1, n)
        /\ stream' = SubSeq(stream, n + 1, Len(stream))
        /\ local' = [local EXCEPT ![FileAt(idx)] = @ \o SubSeq(stream, 1, n)]
        /\ events' = Append(events, Ev("write", FileAt(idx), n))
    /\ pc' = "record"
    /\ UNCHANGED <<resolver, http, desktop>>
    /\ UNCHANGED <<size, localExists, ledgerDisk, idx, file_status, open,
                   result, invocations, hist>>

\* file_status[remote_path]["downloaded"] += len(chunk); progress_callback.
RecordChunk ==
    /\ pc = "record"
    /\ LET p == FileAt(idx)
           fs == AddDownloaded(file_status, p, Len(chunk))
       IN /\ file_status' = fs
          /\ events' = Append(events,
                              Ev("progress", GetDownloadedTotal(fs), TotalSize(size)))
    /\ chunk' = <<>>
    /\ pc' = "recv"
    /\ UNCHANGED <<resolver, http, desktop>>
    /\ UNCHANGED <<size, disk, idx, open, stream, result, invocations, hist>>

\* The response is exhausted: both with-blocks close, and
\* open(progress_file, "w") truncates the ledger file.
SaveOpen ==
    /\ pc = "recv"
    /\ stream = <<>>
    /\ open' = open \ {FileAt(idx)}
    /\ ledgerDisk' = Partial
    /\ pc' = "save"
    /\ UNCHANGED <<resolver, http, desktop>>
    /\ UNCHANGED <<size, local, localExists, idx, file_status, stream, chunk,
                   events, result, invocations, hist>>

\* json.dump(file_status, f) and the close of the ledger file.
SaveWrite ==
    /\ pc = "save"
    /\ ledgerDisk' = Valid(file_status)
    /\ persisted' = Valid(file_status)
    /\ completed' = completed \cup {FileAt(idx)}
    /\ idx' = idx + 1
    /\ pc' = "loop"
    /\ UNCHANGED <<resolver, http, desktop>>
    /\ UNCHANGED <<size, local, localExists, file_status, open, stream, chunk,
                   events, result, invocations, loaded, startLocal, startLedger,
                   prevResult>>

\* What step 5 and 6 emit: the warning when unlink raised, the final status
\* message, and the finished signal of DownloadWorker.run.
FinishEventsFatal(unlinked) ==
    IF unlinked
    THEN <<Ev("done", 0, 0), Ev("finished", 0, 0)>>
    ELSE <<Ev("warn", 0, 0), Ev("error", ErrIO, 0)>>

FinishEvents(unlinked) ==
    IF unlinked
    THEN <<Ev("done", 0, 0), Ev("finished", 0, 0)>>
    ELSE <<Ev("warn", 0, 0), Ev("done", 0, 0), Ev("finished", 0, 0)>>

\* Step 5 and 6: unlink the ledger file when it exists (a failure is a
\* warning), the final status message; DownloadWorker.run emits finished.
Finish ==
    /\ pc = "loop"
    /\ idx > NFiles
    /\ \E unlinked \in BOOLEAN :
        /\ events' = events \o FinishEvents(unlinked)
        /\ IF ledgerDisk.kind = "absent"
           THEN unlinked /\ UNCHANGED <<ledgerDisk, persisted>>
           ELSE IF unlinked
           THEN ledgerDisk' = Absent /\ persisted' = Absent
           ELSE UNCHANGED <<ledgerDisk, persisted>>
    /\ pc' = "idle"
    /\ result' = "success"
    /\ UNCHANGED <<resolver, http, desktop>>
    /\ UNCHANGED <<size, local, localExists, idx, file_status, open, stream,
                   chunk, invocations, loaded, startLocal, startLedger,
                   completed, prevResult>>

\* A network or filesystem error: the catalog request, a file request, a
\* read of the response or a write to the local file, the write of the
\* ledger.  The exception is not caught in download_game.
IOError ==
    /\ pc \in {"fetch", "loop", "recv", "save"}
    /\ pc = "loop" => idx <= NFiles /\ ~IsDone(file_status, size, FileAt(idx))
    /\ Abort
    /\ events' =
         IF pc = "loop"
         THEN events \o <<Ev("status", FileAt(idx), 0),
                          Ev("request", FileAt(idx),
                             RequestOffset(file_status, FileAt(idx))),
                          Ev("error", ErrIO, 0)>>
         ELSE Append(events, Ev("error", ErrIO, 0))
    /\ UNCHANGED <<resolver, http, desktop>>
    /\ UNCHANGED <<size, disk, idx, file_status, invocations, hist>>

\* The process dies: its memory is lost, the install directory stays.
Crash ==
    /\ pc # "idle"
    /\ pc' = "idle"
    /\ result' = "crashed"
    /\ file_status' = EmptyMap
    /\ open' = {}
    /\ stream' = <<>>
    /\ chunk' = <<>>
    /\ UNCHANGED <<resolver, http, desktop>>
    /\ UNCHANGED <<size, disk, idx, events, invocations, hist>>

Next ==
    \/ Start
    \/ FetchCatalog
    \/ LoadLedger
    \/ SkipFile
    \/ RequestFile
    \/ WriteChunk
    \/ RecordChunk
    \/ SaveOpen
    \/ SaveWrite
    \/ Finish
    \/ IOError
    \/ Crash

Spec == Init /\ [][Next]_vars

SpecResume == InitResume /\ [][Next]_vars

\* The first download_game call for the install directory.
StartFirst == invocations = 0 /\ Start

NextFirst ==
    \/ StartFirst
    \/ FetchCatalog
    \/ LoadLedger
    \/ SkipFile
    \/ RequestFile
    \/ WriteChunk
    \/ RecordChunk
    \/ SaveOpen
    \/ SaveWrite
    \/ Finish
    \/ IOError
    \/ Crash

SpecLedger == InitLedger /\ [][NextFirst]_vars

\* download_game called again and again for one install directory, with a
\* server and a filesystem that fail in the earlier calls only: the requests,
\* the writes and the unlink of the last call all succeed.
MayFail == invocations < MaxInvocations

FinishOrWarn == Finish /\ (MayFail \/ ledgerDisk' = Absent)

IOErrorEarly == MayFail /\ IOError

CrashEarly == MayFail /\ Crash

\* The caller calls download_game once more after a call that failed; the
\* calls beyond MaxInvocations are not counted.
StartAgain ==
    /\ pc = "idle"
    /\ invocations = MaxInvocations
    /\ result = "error"
    /\ pc' = "fetch"
    /\ idx' = 1
    /\ file_status' = EmptyMap
    /\ open' = {}
    /\ stream' = <<>>
    /\ chunk' = <<>>
    /\ events' = <<>>
    /\ result' = "running"
    /\ loaded' = EmptyMap
    /\ startLocal' = local
    /\ startLedger' = ledgerDisk
    /\ persisted' = ledgerDisk
    /\ completed' = {}
    /\ prevResult' = result
    /\ UNCHANGED <<resolver, http, desktop>>
    /\ UNCHANGED <<size, disk, invocations>>

\* What the program does by itself when nothing fails.
Run ==
    \/ Start
    \/ StartAgain
    \/ FetchCatalog
    \/ LoadLedger
    \/ SkipFile
    \/ RequestFile
    \/ WriteChunk
    \/ RecordChunk
    \/ SaveOpen
    \/ SaveWrite
    \/ FinishOrWarn

NextLive ==
    \/ Run
    \/ IOErrorEarly
    \/ CrashEarly

\* The caller keeps calling and a running call keeps executing.
SpecLive == Init /\ [][NextLive]_vars /\ WF_vars(Run)

\* ------------------------------------------------- the resolver on its own
\* A request with a progress percentage reaches _get_start_file_index with
\* the scanned file list; no download is running.
InitResolver ==
    /\ resolver \in [files : FileLists, progress_percent : Percents,
                     start : {<<>>}]
    /\ size = [p \in Paths |-> 0]
    /\ local = [p \in Paths |-> <<>>]
    /\ localExists = [p \in Paths |-> FALSE]
    /\ ledgerDisk = Absent
    /\ startLocal = local
    /\ startLedger = ledgerDisk
    /\ persisted = ledgerDisk
    /\ Memory0
    /\ DesktopIdle
    /\ HttpIdle

\* _get_start_file_index returns.
Resolve ==
    /\ resolver.start = <<>>
    /\ resolver' =
           [resolver EXCEPT
               !.start = GetStartFileIndex(resolver.files,
                                           resolver.progress_percent)]
    /\ UNCHANGED <<size, disk, pc, idx, file_status, open, stream, chunk,
                   events, result, invocations, hist>>
    /\ UNCHANGED <<http, desktop>>

NextResolver == Resolve

SpecResolver == InitResolver /\ [][NextResolver]_vars

\* ------------------------------------------------------ the file endpoint
\* The server's filesystem: the game directory holds the files 1..Len(files)
\* of the given sizes (or is missing); the file next to it is absent (-1) or
\* has outside bytes; gone are the files removed since the catalog scan.
FileSystems ==
    [root : {"ok"},
     files : UNION {[1..n -> 0..MaxSize] : n \in 0..NFiles},
     gone : {{}},
     unreadable : {{}},
     outside : {0 - 1, MaxSize}]

Relative(parts) == [absolute |-> FALSE, parts |-> parts]
Absolute(parts) == [absolute |-> TRUE, parts |-> parts]

\* file_path of a request: a file of the game directory, paths that leave
\* the game directory through '..' (to a file, to nothing, and back into the
\* game directory), and absolute paths.
FilePaths ==
    {Relative(<<p>>) : p \in 1..NFiles}
        \cup {Relative(<<DotDot, OutsideName>>), Relative(<<DotDot, NoName>>),
              Relative(<<DotDot, GameName, 1>>),
              Absolute(<<ParentName, OutsideName>>), Absolute(GameDir \o <<1>>)}

\* No request handled yet.
Unanswered ==
    /\ response = [r \in Routes |-> NoResponse]
    /\ gen = NoGen

\* No download_game runs.
NoDownload ==
    /\ size = [p \in Paths |-> 0]
    /\ local = [p \in Paths |-> <<>>]
    /\ localExists = [p \in Paths |-> FALSE]
    /\ ledgerDisk = Absent
    /\ startLocal = local
    /\ startLedger = ledgerDisk
    /\ persisted = ledgerDisk
    /\ Memory0
    /\ DesktopIdle
    /\ resolver = NoResolve

InitFile ==
    /\ config = [verify |-> TRUE, secret_key |-> "secret"]
    /\ srvfs \in FileSystems
    /\ request \in [api_key : ApiKeys, game_known : BOOLEAN,
                    file_path : FilePaths, offset : 0..(MaxSize + 1),
                    progress : {0}]
    /\ Unanswered
    /\ NoDownload

\* download_file answers the request.
DownloadFileRequest ==
    /\ response["download_file"] = NoResponse
    /\ response' = [response EXCEPT
           !["download_file"] = DownloadFileResponse(config, srvfs, request)]
    /\ UNCHANGED <<config, srvfs, request, gen, resolver, client, desktop>>

NextFile == DownloadFileRequest

SpecFile == InitFile /\ [][NextFile]_vars

\* ------------------------------------------------------------ all routes
AnswersAndRemoves(route) ==
    /\ response[route] = NoResponse
    /\ srvfs' = [srvfs EXCEPT !.gone = @ \cup {1}]
    /\ UNCHANGED <<config, request, client, desktop>>

Answers(route) ==
    /\ response[route] = NoResponse
    /\ UNCHANGED <<config, srvfs, request, client, desktop>>

\* What _get_start_file_index returns in the handler, and the record of the
\* call if the handler gets as far.
ResolverResult ==
    GetStartFileIndex(Sizes(ScanGameFiles(srvfs).files), request.progress)

Called(start) ==
    IF CallsResolver(config, srvfs, request)
    THEN [files |-> Sizes(ScanGameFiles(srvfs).files),
          progress_percent |-> request.progress, start |-> start]
    ELSE resolver

ListGamesRequest ==
    /\ Answers("list_games")
    /\ response' = [response EXCEPT
           !["list_games"] = ListGamesResponse(config, request)]
    /\ UNCHANGED <<gen, resolver>>

GetGameFilesRequest ==
    /\ Answers("get_game_files")
    /\ response' = [response EXCEPT
           !["get_game_files"] = GetGameFilesResponse(config, srvfs, request)]
    /\ UNCHANGED <<gen, resolver>>

GetDownloadStartInfoRequest ==
    /\ Answers("get_download_start_info")
    /\ \E start \in {ResolverResult} :
           /\ response' = [response EXCEPT
                  !["get_download_start_info"] =
                      GetDownloadStartInfoResponse(config, srvfs, request,
                                                   start)]
           /\ resolver' = Called(start)
    /\ UNCHANGED gen

\* stream_game_files returns the StreamingResponse or raises.
StreamGameFilesRequest ==
    /\ Answers("stream_game_files")
    /\ \E start \in {ResolverResult} :
       \E resp \in {StreamGameFilesResponse(config, srvfs, request, start)} :
           /\ resolver' = Called(start)
           /\ response' = [response EXCEPT !["stream_game_files"] = resp]
           /\ gen' = IF resp.status = 200 THEN FileStream(resp) ELSE gen

\* The framework iterates the body: one round of the loop of file_stream.
FileStreamNext ==
    /\ gen.state = "running"
    /\ gen' = FileStreamRound(gen, srvfs)
    /\ UNCHANGED <<config, srvfs, request, response, resolver, client, desktop>>

\* A file of the game directory that the stream has not reached yet is
\* removed while the stream is being sent.
RemoveFile ==
    /\ gen.state = "running"
    /\ \E p \in 1..Len(srvfs.files) :
           /\ p > gen.i
           /\ p \notin srvfs.gone
           /\ srvfs' = [srvfs EXCEPT !.gone = @ \cup {p}]
    /\ UNCHANGED <<config, request, response, gen, resolver, client, desktop>>

\* Every configuration of the key check against every header, on a game
\* directory with files.
InitAuth ==
    /\ config \in Configs
    /\ srvfs = [root |-> "ok", files |-> [p \in Paths |-> MaxSize],
                gone |-> {}, unreadable |-> {}, outside |-> 0 - 1]
    /\ request \in [api_key : ApiKeys, game_known : BOOLEAN,
                    file_path : {Relative(<<1>>)}, offset : {0},
                    progress : {0}]
    /\ Unanswered
    /\ NoDownload

NextAuth ==
    \/ ListGamesRequest
    \/ GetGameFilesRequest
    \/ GetDownloadStartInfoRequest
    \/ DownloadFileRequest
    \/ StreamGameFilesRequest
    \/ FileStreamNext

SpecAuth == InitAuth /\ [][NextAuth]_vars

\* ------------------------------------------------------------ the stream
\* The progress percentages of the requests.
StreamPercents == {0, 25, 50, 60, 75, 99, 100}

StreamFileSystems ==
    [root : {"ok"},
     files : UNION {[1..n -> 0..MaxSize] : n \in 0..NFiles},
     gone : {{}},
     unreadable : {{}},
     outside : {0 - 1}]

InitStream ==
    /\ config = [verify |-> TRUE, secret_key |-> "secret"]
    /\ srvfs \in StreamFileSystems
    /\ request \in [api_key : {"secret"}, game_known : {TRUE},
                    file_path : {Relative(<<1>>)}, offset : {0},
                    progress : StreamPercents]
    /\ Unanswered
    /\ NoDownload

NextStream ==
    \/ GetDownloadStartInfoRequest
    \/ StreamGameFilesRequest
    \/ FileStreamNext
    \/ RemoveFile

SpecStream == InitStream /\ [][NextStream]_vars

\* ----------------------------------------------------------- the catalog
\* Game directories that are there, missing, or cannot be listed, with
\* files of which some cannot be opened.
CatalogFileSystems ==
    UNION {[root : {"ok", "missing", "unreadable"},
            files : [1..n -> 0..MaxSize],
            gone : {{}},
            unreadable : SUBSET (1..n),
            outside : {0 - 1}] : n \in 0..NFiles}

InitCatalog ==
    /\ config = [verify |-> TRUE, secret_key |-> "secret"]
    /\ srvfs \in CatalogFileSystems
    /\ request \in [api_key : {"wrong", "secret"}, game_known : BOOLEAN,
                    file_path : {Relative(<<1>>)}, offset : {0},
                    progress : {0}]
    /\ Unanswered
    /\ NoDownload

NextCatalog == GetGameFilesRequest

SpecCatalog == InitCatalog /\ [][NextCatalog]_vars

\* ------------------------------------------------------- the download page
\* Nothing of the downloader or of the server runs.
Elsewhere == NoDownload /\ HttpIdle

Games == {1, 2}

\* DownloadWorker(...): state is running until run() emits finished or
\* error, then the signal emitted, then handled once the slot of the window
\* has run.
Worker(game) == [game |-> game, state |-> "running"]

\* prepare_download(game), connected to the button of every game listed.
PrepareDownload ==
    /\ \E game \in Games : selected_game' = game
    /\ download_btn' = TRUE
    /\ UNCHANGED <<workers, servers, shortcuts>>
    /\ UNCHANGED <<resolver, http, client>>

\* start_download(), connected to download_btn.clicked: a disabled button
\* does not emit.  The server is the game's own or the one looked up for the
\* combo box, which may not be found.
StartDownload ==
    /\ download_btn
    /\ Len(workers) < MaxWorkers
    /\ IF selected_game = 0
       THEN UNCHANGED <<download_btn, workers>>
       ELSE /\ download_btn' = FALSE
            /\ \E server \in BOOLEAN :
                   workers' = IF server
                              THEN Append(workers, Worker(selected_game))
                              ELSE workers
    /\ UNCHANGED <<selected_game, servers, shortcuts>>
    /\ UNCHANGED <<resolver, http, client>>

\* DownloadWorker.run: download_game returned.
EmitFinished ==
    /\ \E i \in 1..Len(workers) :
           /\ workers[i].state = "running"
           /\ workers' = [workers EXCEPT ![i].state = "finished"]
    /\ UNCHANGED <<selected_game, download_btn, servers, shortcuts>>
    /\ UNCHANGED <<resolver, http, client>>

\* DownloadWorker.run: download_game raised.
EmitError ==
    /\ \E i \in 1..Len(workers) :
           /\ workers[i].state = "running"
           /\ workers' = [workers EXCEPT ![i].state = "error"]
    /\ UNCHANGED <<selected_game, download_btn, servers, shortcuts>>
    /\ UNCHANGED <<resolver, http, client>>

\* The slot on_download_finished runs in the window's thread.
OnDownloadFinished ==
    /\ \E i \in 1..Len(workers) :
           /\ workers[i].state = "finished"
           /\ workers' = [workers EXCEPT ![i].state = "handled"]
    /\ download_btn' = TRUE
    /\ UNCHANGED <<selected_game, servers, shortcuts>>
    /\ UNCHANGED <<resolver, http, client>>

\* The slot on_download_error runs in the window's thread.
OnDownloadError ==
    /\ \E i \in 1..Len(workers) :
           /\ workers[i].state = "error"
           /\ workers' = [workers EXCEPT ![i].state = "handled"]
    /\ download_btn' = TRUE
    /\ UNCHANGED <<selected_game, servers, shortcuts>>
    /\ UNCHANGED <<resolver, http, client>>

InitPage == Elsewhere

NextPage ==
    \/ PrepareDownload
    \/ StartDownload
    \/ EmitFinished
    \/ EmitError
    \/ OnDownloadFinished
    \/ OnDownloadError

SpecPage == InitPage /\ [][NextPage]_vars

\* ---------------------------------------------------------- ServerManager
\* An id is str(n) of a number n: the model keeps n.
ServerNames == {1, 2}

\* add_server(name, url, api_key)
NewServer(list, name) == [id |-> Len(list) + 1, name |-> name]

\* remove_server(server_id): the list without the servers of that id
RECURSIVE Without(_, _)
Without(list, server_id) ==
    IF list = <<>> THEN <<>>
    ELSE IF Head(list).id = server_id THEN Without(Tail(list), server_id)
    ELSE <<Head(list)>> \o Without(Tail(list), server_id)

\* get_server(server_id): the position of the first server of that id, 0
\* for None
RECURSIVE GetServerFrom(_, _, _)
GetServerFrom(list, server_id, i) ==
    IF i > Len(list) THEN 0
    ELSE IF list[i].id = server_id THEN i
    ELSE GetServerFrom(list, server_id, i + 1)

GetServer(list, server_id) == GetServerFrom(list, server_id, 1)

AddServer ==
    /\ Len(servers) < MaxServers
    /\ \E name \in ServerNames :
           servers' = Append(servers, NewServer(servers, name))
    /\ UNCHANGED <<page, shortcuts>>
    /\ UNCHANGED <<resolver, http, client>>

RemoveServer ==
    /\ \E server_id \in 1..MaxServers :
           servers' = Without(servers, server_id)
    /\ UNCHANGED <<page, shortcuts>>
    /\ UNCHANGED <<resolver, http, client>>

InitServers == Elsewhere

NextServers ==
    \/ AddServer
    \/ RemoveServer

SpecServers == InitServers /\ [][NextServers]_vars

\* -------------------------------------------------------- SteamVDFManager
\* vdf_data is <<>> for None and <<keys>> for a dictionary whose 'shortcuts'
\* has the keys str(k), k in keys.  APPDATA_AVAILABLE holds: appdata.py is
\* part of the client.
NoFile == [exists |-> FALSE, keys |-> {}, complete |-> FALSE]

WholeFile(keys) == [exists |-> TRUE, keys |-> keys, complete |-> TRUE]

PartOfFile(keys) == [exists |-> TRUE, keys |-> keys, complete |-> FALSE]

Returned(call, value) == [call |-> call, value |-> value]

\* write_binaryVDF(data, path, backup=True).  fails is the step that fails:
\* "rename" (os.rename raises, as it does when there is no file), "open"
\* (open(path, "wb") raises), "dump" (vdf.binary_dump raises after written
\* was written) or "nothing".
WriteBinaryVDF(data, file, fails, written) ==
    IF ~file.exists \/ fails = "rename"
    THEN [file |-> file, raised |-> TRUE, value |-> FALSE]
    ELSE IF fails = "open"
    THEN [file |-> NoFile, raised |-> TRUE, value |-> FALSE]
    ELSE IF fails = "dump"
    THEN [file |-> PartOfFile(written), raised |-> FALSE, value |-> FALSE]
    ELSE [file |-> WholeFile(data[1]), raised |-> FALSE, value |-> TRUE]

\* save_vdf()
SaveVdfOf(data, path, file, fails, written) ==
    IF data = <<>> \/ ~path
    THEN [file |-> file, value |-> FALSE]
    ELSE LET w == WriteBinaryVDF(data, file, fails, written)
         IN  [file |-> w.file, value |-> ~w.raised]

\* get_next_key()
NextKey(keys) ==
    IF keys = {} THEN 0
    ELSE 1 + CHOOSE k \in keys : \A other \in keys : other <= k

Failures == {"rename", "open", "dump", "nothing"}

\* load_vdf(path) for the path of the file: read_binaryVDF raises on a file
\* that ends early.
LoadVdf ==
    /\ IF vdf_file.exists /\ vdf_file.complete
       THEN /\ vdf_data' = <<vdf_file.keys>>
            /\ vdf_path' = TRUE
            /\ returned' = Returned("load_vdf", TRUE)
       ELSE /\ returned' = Returned("load_vdf", FALSE)
            /\ UNCHANGED <<vdf_data, vdf_path>>
    /\ UNCHANGED <<vdf_file, page, servers>>
    /\ UNCHANGED <<resolver, http, client>>

SaveVdf ==
    /\ \E fails \in Failures :
       \E written \in SUBSET (IF vdf_data = <<>> THEN {} ELSE vdf_data[1]) :
       \E save \in {SaveVdfOf(vdf_data, vdf_path, vdf_file, fails, written)} :
           /\ vdf_file' = save.file
           /\ returned' = Returned("save_vdf", save.value)
    /\ UNCHANGED <<vdf_data, vdf_path, page, servers>>
    /\ UNCHANGED <<resolver, http, client>>

\* add_game(...): the new entry, save_vdf, then the write of
\* .steam_pending.json, which may raise.
AddGame ==
    /\ IF vdf_data = <<>>
       THEN /\ returned' = Returned("add_game", FALSE)
            /\ UNCHANGED <<vdf_data, vdf_file>>
       ELSE /\ NextKey(vdf_data[1]) < MaxShortcuts
            /\ vdf_data' = <<vdf_data[1] \cup {NextKey(vdf_data[1])}>>
            /\ \E fails \in Failures :
               \E written \in SUBSET vdf_data'[1] :
               \E pending \in BOOLEAN :
               \E save \in {SaveVdfOf(vdf_data', vdf_path, vdf_file, fails,
                                      written)} :
                   /\ vdf_file' = save.file
                   /\ returned' = Returned("add_game", save.value /\ pending)
    /\ UNCHANGED <<vdf_path, page, servers>>
    /\ UNCHANGED <<resolver, http, client>>

\* The user's shortcuts.vdf as Steam wrote it, if there is one.
InitVdf ==
    /\ size = [p \in Paths |-> 0]
    /\ local = [p \in Paths |-> <<>>]
    /\ localExists = [p \in Paths |-> FALSE]
    /\ ledgerDisk = Absent
    /\ startLocal = local
    /\ startLedger = ledgerDisk
    /\ persisted = ledgerDisk
    /\ Memory0
    /\ resolver = NoResolve
    /\ HttpIdle
    /\ selected_game = 0
    /\ download_btn = FALSE
    /\ workers = <<>>
    /\ servers = <<>>
    /\ vdf_data = <<>>
    /\ vdf_path = FALSE
    /\ \E n \in 0..(MaxShortcuts - 1) :
           vdf_file \in {NoFile, WholeFile(0..(n - 1))}
    /\ returned = Returned("none", FALSE)

NextVdf ==
    \/ LoadVdf
    \/ SaveVdf
    \/ AddGame

SpecVdf == InitVdf /\ [][NextVdf]_vars

\* ------------------------------------------------------------- properties
IsRequest(e) == e.ev = "request"
IsProgress(e) == e.ev = "progress"

\* The file requests of the invocation, in the order they were issued.
Requests == SelectSeq(events, IsRequest)

\* bytesWrittenLocally of p in the ledger file: 0 when the file or the entry
\* is absent (an unparseable file records nothing).
DiskDownloaded(p) ==
    IF ledgerDisk.kind = "valid" /\ p \in DOMAIN ledgerDisk.map
    THEN ledgerDisk.map[p].downloaded
    ELSE 0

Ended == pc = "idle" /\ result \in {"success", "error", "crashed"}

\* C1: whenever an invocation has ended (success, abort or crash at any
\* point), for every catalog file the bytes recorded in the ledger file
\* equal the length of the local file.  The code breaks it.
C1_LedgerMatchesFile ==
    Ended => \A p \in Paths : DiskDownloaded(p) = Len(local[p])

\* The invocation started from a ledger recording k bytes of p, 0 < k < size,
\* with the local file holding exactly the first k bytes of the server's.
ResumesMidFile(p) ==
    /\ startLedger.kind = "valid"
    /\ p \in DOMAIN startLedger.map
    /\ startLedger.map[p].downloaded > 0
    /\ startLedger.map[p].downloaded < size[p]
    /\ startLocal[p] = ServerContent(p, startLedger.map[p].downloaded)

\* C2: an invocation that starts mid-file (ledger k, local file the first k
\* bytes) requests the file with offset exactly k and never with another
\* offset, and when it succeeds the local file equals the server's file.
C2_ResumeFromOffset ==
    \A p \in Paths :
        ResumesMidFile(p) =>
            /\ \A i \in 1..Len(Requests) :
                  Requests[i].a = p =>
                      Requests[i].b = startLedger.map[p].downloaded
            /\ (pc = "idle" /\ result = "success") =>
                  /\ \E i \in 1..Len(Requests) :
                        /\ Requests[i].a = p
                        /\ Requests[i].b = startLedger.map[p].downloaded
                  /\ local[p] = ServerContent(p, size[p])

C2_Witness ==
    /\ pc = "idle"
    /\ result = "success"
    /\ \E p \in Paths :
          /\ ResumesMidFile(p)
          /\ local[p] = ServerContent(p, size[p])
          /\ Len(local[p]) > Len(startLocal[p])

\* C3: an invocation that follows a successful one issues no file request,
\* and its first progress report has bytesDone = bytesTotal.  The code
\* breaks it.
C3_RedownloadIsNoOp ==
    (prevResult = "success" /\ result # "none") =>
        /\ Requests = <<>>
        /\ \A i \in 1..Len(events) :
              (events[i].ev = "progress"
                 /\ \A j \in 1..(i - 1) : events[j].ev # "progress")
              => events[i].a = events[i].b

\* C4: an invocation that an error aborted ends with the error, without the
\* success signal, without a second request for any file, with the ledger
\* file as last persisted; and no invocation requests a file that the ledger
\* file it started from records as complete.  The code breaks it.
C4_AbortKeepsLedger ==
    /\ (pc = "idle" /\ result = "error") =>
          /\ events[Len(events)].ev = "error"
          /\ \A i \in 1..Len(events) : events[i].ev # "finished"
          /\ \A i, j \in 1..Len(Requests) :
                Requests[i].a = Requests[j].a => i = j
          /\ ledgerDisk = persisted
    /\ \A i \in 1..Len(Requests) :
          ~(/\ startLedger.kind = "valid"
            /\ Requests[i].a \in DOMAIN startLedger.map
            /\ startLedger.map[Requests[i].a].downloaded
                 >= startLedger.map[Requests[i].a].size)

\* C5: after a crash the ledger file holds a whole ledger (the old or the
\* new one) or is absent, never a cut-short one.  The code breaks it.
C5_SaveIsAtomic ==
    (pc = "idle" /\ result = "crashed") => ledgerDisk.kind # "partial"

\* C6: from the save that follows a file's transfer on, through every later
\* point of the invocation up to the deletion of the ledger and through a
\* crash or an abort at any of them, the ledger file records the file as
\* complete.  The code breaks it.
C6_CompletedFilesDurable ==
    result \in {"running", "crashed", "error"} =>
        \A p \in completed :
            /\ ledgerDisk.kind = "valid"
            /\ p \in DOMAIN ledgerDisk.map
            /\ ledgerDisk.map[p].downloaded >= size[p]

SomeEntryIncomplete ==
    \E p \in DOMAIN file_status :
        file_status[p].downloaded < file_status[p].size

\* C7: the invocation leaves the ledger file deleted only when every entry
\* of the ledger is complete, and an invocation that returns or aborts with
\* an incomplete entry leaves a ledger file on disk.  The code breaks it.
C7_LedgerAbsentOnlyWhenComplete ==
    /\ (pc = "idle" /\ result = "success" /\ ledgerDisk.kind = "absent")
          => ~SomeEntryIncomplete
    /\ (pc = "idle" /\ result \in {"success", "error"} /\ SomeEntryIncomplete)
          => ledgerDisk.kind # "absent"

IsPrefix(s, t) == Len(s) <= Len(t) /\ SubSeq(t, 1, Len(s)) = s

\* C8: every step leaves every local file with all its bytes in place: the
\* old content is a prefix of the new one, and an existing file stays.
C8_FilesOnlyExtended ==
    [][\A p \in Paths :
          /\ IsPrefix(local[p], local'[p])
          /\ localExists[p] => localExists'[p]]_vars

C8_Witness ==
    \E p \in Paths :
        /\ startLocal[p] # <<>>
        /\ Len(local[p]) > Len(startLocal[p])
        /\ IsPrefix(startLocal[p], local[p])

\* The files the loop has reached: those before position idx, and the one
\* at idx once its request was issued.
Reached ==
    IF pc \in {"recv", "record", "save"} THEN 1..idx
    ELSE IF pc = "loop" THEN 1..(idx - 1)
    ELSE {}

\* C9: a file the loop has reached has a request exactly when the ledger,
\* as loaded, shows it incomplete; no file has a request or a status message
\* when that ledger shows it complete; a status message comes with every
\* request; every request carries the ledger's bytesWrittenLocally.
C9_RequestIffIncomplete ==
    /\ \A p \in Reached :
          (loaded[p].downloaded < size[p])
             <=> (\E i \in 1..Len(Requests) : Requests[i].a = p)
    /\ \A i \in 1..Len(events) :
          events[i].ev \in {"request", "status"} =>
              /\ events[i].a \in DOMAIN loaded
              /\ loaded[events[i].a].downloaded < size[events[i].a]
    /\ \A i \in 1..Len(events) :
          events[i].ev = "request" =>
              /\ events[i].b = loaded[events[i].a].downloaded
              /\ i > 1
              /\ events[i - 1] = Ev("status", events[i].a, 0)
    /\ \A i \in 1..Len(events) :
          events[i].ev = "status" =>
              /\ i < Len(events)
              /\ events[i + 1].ev = "request"
              /\ events[i + 1].a = events[i].a

C9_Witness ==
    /\ pc = "loop"
    /\ idx > NFiles
    /\ \E p, q \in Paths :
          /\ loaded[p].downloaded >= size[p]
          /\ loaded[q].downloaded > 0
          /\ loaded[q].downloaded < size[q]
          /\ Requests = <<Ev("request", q, loaded[q].downloaded)>>

\* C10: the requests of an invocation follow the catalog order strictly,
\* no request is issued while a response is open, and at most one response
\* is open at a time.
C10_OneFileAtATime ==
    /\ \A i, j \in 1..Len(Requests) :
          i < j => Requests[i].a < Requests[j].a
    /\ Cardinality(open) <= 1
    /\ pc \in {"idle", "fetch", "load", "loop", "save"} => open = {}
    /\ pc \in {"recv", "record"} => open = {Requests[Len(Requests)].a}

C10_Witness ==
    /\ Len(Requests) = NFiles
    /\ pc = "recv"
    /\ stream # <<>>

\* The sum of the ledger counters, entry by entry (the catalog's paths and
\* the one path an older catalog may have left in the ledger).
RECURSIVE CounterSum(_, _)
CounterSum(fs, n) ==
    IF n = 0 THEN 0
    ELSE (IF n \in DOMAIN fs THEN fs[n].downloaded ELSE 0) + CounterSum(fs, n - 1)

\* The bytesDone of the latest onProgress call before event i, -1 if none.
RECURSIVE LastProgressBefore(_)
LastProgressBefore(i) ==
    IF i <= 1 THEN 0 - 1
    ELSE IF events[i - 1].ev = "progress" THEN events[i - 1].a
    ELSE LastProgressBefore(i - 1)

\* C11: every chunk is first appended to the local file, then added to the
\* file's ledger counter, then reported: each onProgress call after the
\* first follows a file append directly and reports the previous bytesDone
\* plus the chunk length, which is the sum of all ledger counters; the
\* counter of the file in transfer has grown by exactly the bytes appended
\* (less the chunk just written and not yet recorded); bytesDone never
\* decreases from one onProgress call to the next.
C11_WriteRecordReport ==
    /\ \A i \in 2..Len(events) :
          /\ events[i].ev = "progress" =>
                /\ events[i - 1].ev = "write"
                /\ events[i].a = LastProgressBefore(i) + events[i - 1].b
                /\ events[i].a >= LastProgressBefore(i)
          /\ events[i - 1].ev = "write" => events[i].ev = "progress"
    /\ pc \in {"recv", "record", "save"} =>
          LET p == FileAt(idx) IN
          /\ file_status[p].downloaded + Len(chunk)
                = loaded[p].downloaded + (Len(local[p]) - Len(startLocal[p]))
          /\ pc # "record" =>
                LastProgressBefore(Len(events) + 1)
                   = CounterSum(file_status, NFiles + 1)
          /\ pc = "record" => chunk # <<>> /\ events[Len(events)].ev = "write"

C11_Witness ==
    /\ pc = "recv"
    /\ stream = <<>>
    /\ loaded[FileAt(idx)].downloaded > 0
    /\ \E i \in 1..Len(events) : events[i].ev = "write"
    /\ events[Len(events)].ev = "progress"
    /\ events[Len(events)].a > events[1].a

\* The sum of the catalog's file sizes, file by file.
RECURSIVE SizeSum(_)
SizeSum(n) == IF n = 0 THEN 0 ELSE size[n] + SizeSum(n - 1)

\* The invocation got past the load of the ledger.
PastLoad == events # <<>> /\ events[1].ev = "progress"

\* C12: the first onProgress call comes before every request, status message
\* and file append of the invocation, and reports the sum of the counters of
\* the ledger as loaded and initialised against the sum of the catalog's
\* sizes.
C12_InitialProgress ==
    /\ \A i \in 1..Len(events) :
          events[i].ev \in {"request", "status", "write", "done", "finished"}
             => i > 1 /\ events[1].ev = "progress"
    /\ PastLoad =>
          events[1] = Ev("progress", CounterSum(loaded, Stale), SizeSum(NFiles))

C12_Witness ==
    /\ PastLoad
    /\ Stale \in DOMAIN loaded
    /\ loaded[Stale].downloaded > 0
    /\ events[1].a > loaded[Stale].downloaded
    /\ Len(Requests) > 0

\* C13: the success signal is emitted at most once, only as the last event
\* of an invocation that processed every catalog file, right after the final
\* status message, and never together with an error; an invocation that
\* succeeded has emitted it; a warning about the ledger file is followed by
\* the final status message and the success signal.
C13_SuccessSignal ==
    /\ \A i \in 1..Len(events) :
          /\ events[i].ev = "finished" =>
                /\ i = Len(events)
                /\ i > 1
                /\ events[i - 1].ev = "done"
                /\ pc = "idle"
                /\ result = "success"
                /\ idx = NFiles + 1
                /\ \A p \in Paths : file_status[p].downloaded >= size[p]
          /\ events[i].ev = "error" =>
                /\ i = Len(events)
                /\ result # "success"
          /\ events[i].ev = "done" => i = Len(events) - 1
          /\ events[i].ev = "warn" =>
                /\ i = Len(events) - 2
                /\ events[i + 1].ev = "done"
                /\ ledgerDisk.kind # "absent"
    /\ (pc = "idle" /\ result = "success") =>
          /\ events # <<>>
          /\ events[Len(events)].ev = "finished"

C13_Witness ==
    /\ pc = "idle"
    /\ result = "success"
    /\ \E i \in 1..Len(events) : events[i].ev = "warn"
    /\ events[Len(events)].ev = "finished"

\* C14: an invocation never fails on the ledger it finds, and one that finds
\* no ledger file, or one that is no ledger, starts every file from 0.  The
\* code breaks it.
C14_LoadNeverFails ==
    /\ \A i \in 1..Len(events) : events[i] # Ev("error", ErrLedger, 0)
    /\ (startLedger.kind # "valid" /\ PastLoad) =>
          \A p \in Paths : loaded[p].downloaded = 0

\* C15: with a catalog whose sizes are all zero the invocation ends with an
\* error at the catalog: no callback, no request, the ledger neither read
\* nor written, no local file touched.
C15_EmptyGameFails ==
    ((\A p \in Paths : size[p] = 0) /\ invocations > 0 /\ pc # "fetch") =>
        /\ pc = "idle"
        /\ result \in {"error", "crashed"}
        /\ result = "error" => Len(events) = 1 /\ events[1].ev = "error"
        /\ result = "crashed" => events = <<>>
        /\ loaded = EmptyMap
        /\ file_status = EmptyMap
        /\ ledgerDisk = startLedger
        /\ local = startLocal

C15_Witness ==
    /\ \A p \in Paths : size[p] = 0
    /\ startLedger.kind = "valid"
    /\ result = "error"
    /\ events = <<Ev("error", ErrEmptyGame, 0)>>

Tracked(p) == startLedger.kind = "valid" /\ p \in DOMAIN startLedger.map

\* C16: once the ledger is loaded and initialised, every catalog path has an
\* entry; a path the ledger file did not track has bytesWrittenLocally 0 and
\* the catalog's size; every entry the ledger file held is as it was, and
\* there are no other entries.
C16_LedgerInitialised ==
    PastLoad =>
        /\ \A p \in Paths :
              /\ p \in DOMAIN loaded
              /\ ~Tracked(p) => loaded[p] = [size |-> size[p], downloaded |-> 0]
        /\ \A p \in DOMAIN loaded :
              /\ p \in Paths \/ Tracked(p)
              /\ Tracked(p) => loaded[p] = startLedger.map[p]

C16_Witness ==
    /\ PastLoad
    /\ \E p, q \in Paths :
          /\ Tracked(p)
          /\ loaded[p].downloaded > 0
          /\ ~Tracked(q)
          /\ loaded[q].size > 0
    /\ Tracked(Stale)

\* ------------------------------------------------------ progress resolver
Resolved == resolver.start # <<>>
FileCount == Len(resolver.files)
InRange == 0 < resolver.progress_percent /\ resolver.progress_percent < 100

\* The resolver of the specification, in exact arithmetic.  With
\* share = 100 / fileCount, progressPercent / share is
\* progressPercent * fileCount / 100, and fileFraction is RefHundredths / 100.
RefIndex ==
    IF (resolver.progress_percent * FileCount) \div 100 >= FileCount
    THEN FileCount - 1
    ELSE (resolver.progress_percent * FileCount) \div 100

RefHundredths == resolver.progress_percent * FileCount - 100 * RefIndex

RefOffset == (resolver.files[RefIndex + 1] * RefHundredths) \div 100

\* C17: for a list of at least one file and a percentage in [0, 100] the
\* resolver returns an index in 0..fileCount, and either (fileCount, 0) or
\* an index below fileCount with an offset from 0 to the size of that file.
C17_ResultInRange ==
    (/\ Resolved
     /\ FileCount >= 1
     /\ resolver.progress_percent \in 0..100)
    => /\ resolver.start[1] \in 0..FileCount
       /\ \/ resolver.start = <<FileCount, 0>>
          \/ /\ resolver.start[1] < FileCount
             /\ resolver.start[2] \in 0..resolver.files[resolver.start[1] + 1]

\* A resume point inside a file that is not the first, smaller than the first.
C17_Witness ==
    /\ Resolved
    /\ FileCount >= 2
    /\ resolver.progress_percent \in 0..100
    /\ resolver.start[1] \in 1..(FileCount - 1)
    /\ resolver.start[2] > 0
    /\ resolver.files[resolver.start[1] + 1] < resolver.files[1]

\* C18: a percentage of 0 or less resolves to (0, 0), a percentage of 100 or
\* more to (fileCount, 0), and the empty list to (0, 0) whatever the
\* percentage.
C18_EdgeCases ==
    Resolved
    => /\ resolver.progress_percent <= 0 => resolver.start = <<0, 0>>
       /\ resolver.progress_percent >= 100 => resolver.start = <<FileCount, 0>>
       /\ FileCount = 0 => resolver.start = <<0, 0>>

\* A percentage below 0 with files to send.
C18_Witness ==
    /\ Resolved
    /\ FileCount >= 1
    /\ resolver.progress_percent < 0
    /\ resolver.start = <<0, 0>>

\* C19: for a percentage strictly between 0 and 100 whose position within
\* the share of file i is 0.95 or more, the resolver returns (i + 1, 0).
C19_SkipAhead ==
    (Resolved /\ FileCount >= 1 /\ InRange /\ RefHundredths >= 95)
    => resolver.start = <<RefIndex + 1, 0>>

\* C20: for a percentage strictly between 0 and 100 whose position within
\* the share of its file is below 0.95, the resolver returns the file of the
\* reference and the offset floor(size of that file * fileFraction).
C20_MatchesReference ==
    (Resolved /\ FileCount >= 1 /\ InRange /\ RefHundredths < 95)
    => resolver.start = <<RefIndex, RefOffset>>


\* ------------------------------------------------------ the file endpoint
Answer == response["download_file"]

\* The place the requested path leads to on the server's filesystem.
Target == Walk(srvfs, <<>>, FullPath(request.file_path))

\* An authorised request for an existing file inside the game directory has
\* been answered.
FileInsideAnswered ==
    /\ Answer # NoResponse
    /\ VerifyApiKey(config, request.api_key)
    /\ request.game_known
    /\ InsideGameDir(Target)
    /\ IsFile(srvfs, Target)

Whole == FileBytes(srvfs, Target)

\* C21: an authorised request for an existing file inside the game directory
\* whose offset is at or past the file's size is answered 416 without a
\* body, never 200 or 206; offset 0 on a zero-length file included.
C21_RangeNotSatisfiable ==
    (FileInsideAnswered /\ request.offset >= Len(Whole))
        => /\ Answer.status = 416
           /\ Answer.body = <<>>

\* Offset 0 on a zero-length file, and an offset past the end of a file with
\* bytes, both answered.
C21_Witness ==
    /\ FileInsideAnswered
    /\ request.offset >= Len(Whole)
    /\ Answer.status = 416
    /\ \/ request.offset = 0
       \/ Len(Whole) > 0 /\ request.offset > Len(Whole)

\* The requested path goes through '..' and leads out of the game directory.
Traversal ==
    /\ \E i \in 1..Len(request.file_path.parts) :
           request.file_path.parts[i] = DotDot
    /\ ~InsideGameDir(Target)

\* C22: an authorised request whose path leaves the game directory through
\* '..' is answered 403, whether or not a file exists at the place it leads
\* to, and no byte of a file outside the game directory is served.
C22_TraversalForbidden ==
    (/\ Answer # NoResponse
     /\ VerifyApiKey(config, request.api_key)
     /\ request.game_known
     /\ Traversal)
        => /\ Answer.status = 403
           /\ Answer.body = <<>>

\* C23: for an authorised request of an existing file of size S inside the
\* game directory, offset 0 is answered 200 with declared length S and the
\* whole file as body; 0 < offset < S is answered 206 with Content-Range
\* bytes offset-(S-1)/S, Content-Length S - offset and the bytes from offset
\* to the end, so that the first offset bytes followed by the body are the
\* whole file.
C23_WholeOrRest ==
    (FileInsideAnswered /\ request.offset < Len(Whole))
        => LET S == Len(Whole)
               offset == request.offset
           IN  /\ offset = 0
                   => /\ Answer.status = 200
                      /\ Answer.content_length = S
                      /\ Answer.body = Whole
               /\ offset > 0
                   => /\ Answer.status = 206
                      /\ Answer.content_range = <<offset, S - 1, S>>
                      /\ Answer.content_length = S - offset
                      /\ Len(Answer.body) = S - offset
                      /\ SubSeq(Whole, 1, offset) \o Answer.body = Whole

\* A partial response with a body.
C23_Witness ==
    /\ FileInsideAnswered
    /\ Answer.status = 206
    /\ request.offset > 0
    /\ Len(Answer.body) >= 1
    /\ SubSeq(Whole, 1, request.offset) \o Answer.body = Whole


\* --------------------------------------------------------------- the key
\* C24: on each of the five routes, with verification enabled a request
\* whose key is missing or not the configured one is answered 403 before any
\* game lookup, scan or file read; with verification disabled every key, or
\* none, is accepted.
C24_KeyChecked ==
    \A route \in Routes :
        response[route] # NoResponse
            => /\ (config.verify /\ request.api_key # config.secret_key)
                   => /\ response[route].status = 403
                      /\ response[route].work = <<>>
               /\ ~config.verify => response[route].status # 403


\* ------------------------------------------------------------ the stream
StreamAnswer == response["stream_game_files"]
StartAnswer == response["get_download_start_info"]

\* The catalog as the handlers scanned it: no file is removed before the
\* stream is being sent.
Catalog == Entries(srvfs)

\* The bytes of the body, the boundary markers left out.
RECURSIVE Payload(_)
Payload(sent) ==
    IF sent = <<>> THEN <<>>
    ELSE sent[1].data \o Payload(Tail(sent))

\* The bytes of the files from file k (counted from 0) at offset off on.
RECURSIVE Rest(_, _, _)
Rest(files, k, off) ==
    IF k >= Len(files) THEN <<>>
    ELSE LET whole == ServerContent(files[k + 1].path[1], files[k + 1].size)
         IN  SubSeq(whole, off + 1, Len(whole)) \o Rest(files, k + 1, 0)

\* The generator has ended, in one way or the other.
StreamEnded == gen.state \in {"done", "raised"}

\* C25: when the stream of a request resolved to (k, off), k < fileCount,
\* has ended and all files of the catalog were there, it ran to the end of
\* the last file and its body without the markers is file k from off on
\* followed by the files after k, whole and in catalog order.
C25_StreamsTheRest ==
    (StreamAnswer.status = 200 /\ StreamEnded /\ srvfs.gone = {})
        => /\ gen.state = "done"
           /\ Payload(gen.sent) =
                  Rest(StreamAnswer.files, StreamAnswer.start_file_index,
                       StreamAnswer.file_offset)

\* The segments sent: the positions in the body that are no markers.
Segments == {j \in 1..Len(gen.sent) : ~gen.sent[j].marker}

\* A marker for the file of segment j stands right before it.
Marked(j) ==
    /\ j > 1
    /\ gen.sent[j - 1].marker
    /\ gen.sent[j - 1].path = gen.sent[j].path
    /\ gen.sent[j - 1].size = gen.sent[j].size

\* C26: a segment of the stream is preceded by a marker exactly when it is
\* not the first segment sent or it is the starting file at an offset above
\* 0, the marker names the file and its full size, every marker precedes a
\* segment, and a file missing at stream time adds nothing to the body and
\* does not end the stream.
C26_Markers ==
    StreamAnswer.status = 200
        => /\ \A j \in Segments :
                  Marked(j)
                      <=> \/ \E h \in Segments : h < j
                          \/ /\ gen.sent[j].path = StreamAnswer.start_file_path
                             /\ StreamAnswer.file_offset > 0
           /\ \A j \in 1..Len(gen.sent) :
                  gen.sent[j].marker => (j + 1) \in Segments /\ Marked(j + 1)
           /\ \A j \in 1..Len(gen.sent) :
                  gen.sent[j].path[1] \notin srvfs.gone
           /\ gen.state # "raised"

\* The last call of _get_start_file_index was for these files and the
\* progress of the request.
ResolvedFor(files) ==
    /\ resolver.start # <<>>
    /\ resolver.files = Sizes(files)
    /\ resolver.progress_percent = request.progress

\* What it returned.
ResultFor(files) == resolver.start

\* C27: an authorised stream request for a known game is answered 404, with
\* no body generator, exactly when progress >= 100, the catalog is empty or
\* the resolver's index is past the last file; otherwise a stream is
\* started.
C27_NothingToStream ==
    (/\ StreamAnswer # NoResponse
     /\ StreamAnswer.status \in {200, 404}
     /\ Catalog # <<>> => ResolvedFor(Catalog))
        => LET nothing ==
                   \/ request.progress >= 100
                   \/ Catalog = <<>>
                   \/ ResultFor(Catalog)[1] >= Len(Catalog)
           IN  IF nothing
               THEN StreamAnswer.status = 404 /\ gen = NoGen
               ELSE StreamAnswer.status = 200 /\ gen.state # "none"

\* The skip-ahead past the last file of a catalog with files, answered.
C27_Witness ==
    /\ StreamAnswer # NoResponse
    /\ StreamAnswer.status = 404
    /\ Catalog # <<>>
    /\ request.progress < 100
    /\ ResolvedFor(Catalog)
    /\ ResultFor(Catalog)[1] >= Len(Catalog)
    /\ gen = NoGen

\* C28: the start information is the resolver's result for the catalog and
\* the progress, with the path of the file at that index (fileCount, the
\* empty path and 0 when nothing remains), and the stream for the same
\* catalog and progress begins sending at that file and offset.
C28_SamePosition ==
    /\ (StartAnswer # NoResponse /\ StartAnswer.status = 200)
           => LET start == GetStartFileIndex(Sizes(StartAnswer.files),
                                             request.progress)
              IN  /\ StartAnswer.start_file_index = start[1]
                  /\ StartAnswer.start_file_offset = start[2]
                  /\ StartAnswer.start_file_path =
                         IF start[1] < Len(StartAnswer.files)
                         THEN StartAnswer.files[start[1] + 1].path ELSE <<>>
    /\ (/\ StartAnswer # NoResponse
        /\ StartAnswer.status = 200
        /\ StreamAnswer.status = 200
        /\ StartAnswer.files = StreamAnswer.files
        /\ StreamEnded
        /\ srvfs.gone = {})
           => /\ gen.sent # <<>>
              /\ LET first == gen.sent[CHOOSE j \in Segments :
                                           \A h \in Segments : j <= h]
                 IN  /\ first.path = StartAnswer.start_file_path
                     /\ first.size - Len(first.data) =
                            StartAnswer.start_file_offset


\* ----------------------------------------------------------- the catalog
Listing == response["get_game_files"]

\* What download_game computes from the files of the catalog response:
\* total_size = sum(f["size"] for f in files).
BytesTotal ==
    TotalSize([p \in Paths |->
                  IF p <= Len(Listing.files) THEN Listing.files[p].size
                  ELSE 0])

\* The sizes of the first n files of the game directory, added up.
RECURSIVE SizeOnDisk(_)
SizeOnDisk(n) == IF n = 0 THEN 0 ELSE srvfs.files[n] + SizeOnDisk(n - 1)

\* C29: in a catalog response total_size is the sum of the sizes of the
\* files listed and total_files their number, and the total the downloader
\* computes from the response is total_size.
C29_Totals ==
    (Listing # NoResponse /\ Listing.status = 200)
        => /\ Listing.total_files = Len(Listing.files)
           /\ Listing.files = Entries(srvfs)
               => Listing.total_size = SizeOnDisk(Len(srvfs.files))
           /\ BytesTotal = Listing.total_size

\* A catalog of several files with bytes.
C29_Witness ==
    /\ Listing # NoResponse
    /\ Listing.status = 200
    /\ Listing.total_files = NFiles
    /\ Listing.total_size > Listing.total_files
    /\ BytesTotal = Listing.total_size

\* C30: a catalog request does not succeed with files left out: when the
\* game directory or one of its entries cannot be read the request fails,
\* and a successful response lists every file of the game directory.
C30_NothingOmitted ==
    (/\ Listing # NoResponse
     /\ VerifyApiKey(config, request.api_key)
     /\ request.game_known)
        => /\ (srvfs.root # "ok" \/ srvfs.unreadable # {})
               => Listing.status >= 400
           /\ Listing.status = 200 => Listing.files = Entries(srvfs)


\* A route has answered with the refusal of the key check.
RejectedByKey(route) ==
    /\ response[route].status = 403
    /\ response[route].work = <<>>

\* C37: a request is rejected by the key check exactly when verification is
\* enabled, the configured secret is not empty and the key of the request
\* differs from it; with verification enabled and no secret configured
\* every request passes the key check.
C37_RejectedIff ==
    \A route \in Routes :
        response[route] # NoResponse
            => (RejectedByKey(route)
                    <=> /\ config.verify
                        /\ config.secret_key # ""
                        /\ request.api_key # config.secret_key)

\* Verification enabled, no secret configured: requests without a key pass
\* on every route, and the file is served.
C37_Witness ==
    /\ config.verify
    /\ config.secret_key = ""
    /\ request.api_key = "none"
    /\ \A route \in Routes :
           response[route] # NoResponse /\ ~RejectedByKey(route)
    /\ response["download_file"].status = 200


\* ------------------------------------------- the resolver and the ranges
\* The file the resolver points into, and what download_file answers to a
\* request for it at the offset the resolver returned.
ResolvedSize == resolver.files[resolver.start[1] + 1]

AtResolvedPoint ==
    DownloadFile(ServerContent(resolver.start[1] + 1, ResolvedSize),
                 resolver.start[2])

\* C36: when the resolver returns an index below fileCount for a file with
\* bytes, the offset is below the size of that file, and download_file does
\* not answer 416 to a request at that offset.
C36_OffsetInsideFile ==
    (/\ Resolved
     /\ resolver.start[1] < FileCount
     /\ ResolvedSize > 0)
        => /\ resolver.start[2] < ResolvedSize
           /\ AtResolvedPoint.status # 416

\* A resume point inside a file, answered with the rest of the file.
C36_Witness ==
    /\ Resolved
    /\ resolver.start[1] < FileCount
    /\ resolver.start[2] > 0
    /\ AtResolvedPoint.status = 206
    /\ Len(AtResolvedPoint.body) = ResolvedSize - resolver.start[2]


\* ------------------------------------------------- the install directory
\* C32: with an unchanged catalog and a server that serves the files as
\* they are, after any sequence of download_game calls for the install
\* directory, ended by success, error or crash, no local file is longer than
\* the size the catalog declares for it.
C32_NeverLonger == \A p \in Paths : Len(local[p]) <= size[p]


\* C33: when download_game has signalled success, every file of the catalog
\* exists in the install directory and has the length the catalog declares,
\* the files of length 0 included.
C33_SuccessMeansAllFiles ==
    result = "success"
        => \A p \in Paths : localExists[p] /\ Len(local[p]) = size[p]


\* C34: in every progress report of download_game bytesDone is at most
\* bytesTotal, whatever ledger earlier calls for the install directory left
\* on disk, a ledger of an earlier catalog with a file no longer listed
\* included.
C34_DoneAtMostTotal ==
    \A i \in 1..Len(events) :
        events[i].ev = "progress" => events[i].a <= events[i].b


\* C35: when download_game is called again and again for one install
\* directory against an unchanged catalog, and the server and the filesystem
\* stop failing, some call signals success and leaves no ledger file.
C35_EventuallySuccess == <>(result = "success" /\ ledgerDisk = Absent)

\* C35 for a catalog whose sizes do not add up to 0: some call signals
\* success and leaves no ledger file.
C35_EventuallySuccessWithBytes ==
    ~IsEmptyGame(size) => <>(result = "success" /\ ledgerDisk = Absent)

\* Success without a ledger in the call that follows a failed one.
C35_Witness ==
    /\ result = "success"
    /\ ledgerDisk = Absent
    /\ prevResult \in {"error", "crashed"}
    /\ ~IsEmptyGame(size)
    /\ invocations = MaxInvocations


\* --------------------------------------------------- handlers side by side
\* What a handler answers to the request when it is the only one called.
Alone(route) ==
    CASE route = "list_games" -> ListGamesResponse(config, request)
      [] route = "get_game_files" ->
             GetGameFilesResponse(config, srvfs, request)
      [] route = "get_download_start_info" ->
             GetDownloadStartInfoResponse(config, srvfs, request,
                                          ResolverResult)
      [] route = "download_file" ->
             DownloadFileResponse(config, srvfs, request)
      [] route = "stream_game_files" ->
             StreamGameFilesResponse(config, srvfs, request, ResolverResult)

RECURSIVE BodyAlone(_, _)
\* The body of a streaming response iterated to its end with nothing else
\* running.
BodyAlone(g, fs) ==
    IF g.state # "running" THEN g ELSE BodyAlone(FileStreamRound(g, fs), fs)

AsIfAlone ==
    /\ \A route \in Routes :
           response[route] # NoResponse => response[route] = Alone(route)
    /\ gen.state \in {"done", "raised"}
           => gen = BodyAlone(FileStream(Alone("stream_game_files")), srvfs)

Running == {i \in 1..Len(workers) : workers[i].state = "running"}

\* C38: at most one download worker is running at any time, whatever the
\* sequence of prepare_download and start_download: no worker is started
\* while one has not yet emitted finished or error.
C38_AtMostOneWorker == Cardinality(Running) <= 1


\* C39: after any sequence of add_server and remove_server the servers of
\* the list have pairwise distinct ids: get_server(id) gives the one server
\* of that id and remove_server(id) removes exactly one.
C39_DistinctIds ==
    \A i \in 1..Len(servers) :
        /\ \A j \in 1..Len(servers) : i # j => servers[i].id # servers[j].id
        /\ GetServer(servers, servers[i].id) = i
        /\ Len(Without(servers, servers[i].id)) = Len(servers) - 1


\* C40: save_vdf, and add_game, has returned True only if the file holds
\* the whole of the shortcut data.
C40_TrueOnlyIfWritten ==
    (returned.call \in {"save_vdf", "add_game"} /\ returned.value)
        => vdf_file = WholeFile(vdf_data[1])

====
